---------------------------- MODULE Spec2Model ----------------------------
(***************************************************************************)
(* A model of the honeycomb infill generator of cadquery-designs           *)
(* (src/honeycomb.py).                                                     *)
(*                                                                         *)
(* Number representation.  The source computes with floats; the model      *)
(* computes the same expressions exactly:                                  *)
(*   - lengths given by the caller (width, height, cell_size, edge_width,  *)
(*     bounding-box coordinates) are integers of one length unit;          *)
(*   - an x coordinate of the lattice is held as x4 = 4 * x (the source's  *)
(*     x values are multiples of 1.5 * cell_size / 2 = 3/4 * cell_size);   *)
(*   - a y coordinate of the lattice is held as ys, with                   *)
(*     y = ys * sqrt(3) / 2 (the source's y values are multiples of        *)
(*     sqrt(3) * cell_size / 2).                                           *)
(* Comparisons that involve sqrt(3) are decided exactly by squaring.       *)
(***************************************************************************)
EXTENDS Integers, Sequences, FiniteSets, TLC

VARIABLES
    \* ---- _hex_centers(width, height, cell_size): arguments and frame ----
    width,          \* argument
    height,         \* argument
    cell_size,      \* argument (shared with apply_honeycomb)
    hpc,            \* position in the generator: idle, col_head, row_loop, done
    n_cols,         \* local
    n_rows,         \* local
    col,            \* loop variable
    row,            \* loop variable
    y0s,            \* local y0 of the current column (in sqrt(3)/2 units)
    out,            \* the centres yielded so far by the current call
    prev,           \* the complete sequence of the previous call
    calls,          \* number of calls made with these arguments
    \* ---- apply_honeycomb(wall, cell_size, edge_width, shell_thickness,
    \*                      normal_axis): arguments and frame ----
    wall,           \* argument: the wall solid, known by its bounding box
    edge_width,     \* argument
    shell_thickness,\* argument
    normal_axis,    \* argument: None or a string
    apc,            \* position in apply_honeycomb
    orientation,    \* local: the dict _resolve_orientation returned
    shell_only,     \* local
    pattern,        \* local
    infill,         \* local
    result,         \* the Workplane returned
    error,          \* the exception that left apply_honeycomb, if any
    ops,            \* the geometry operations performed so far, in order
    \* ---- repeated calls of _resolve_orientation(solid, normal_axis) ----
    ocalls,         \* number of calls made with these arguments
    prev_result,    \* what the call before the last one gave
    \* ---- a script run (__main__) and cq_utils.export_models ----
    spc,            \* position in the script: idle, building, exporting, done, crashed
    to_build,       \* the names of the script's models, in the order of all_models
    models,         \* all_models so far: the names of the models built
    stl_export,     \* DO_STL_EXPORT, passed as stl_export
    step_export,    \* DO_STEP_EXPORT, passed as step_export
    had_dir,        \* the directory "exports" existed when the script started
    dirs,           \* the directories that exist, besides "." and "/"
    writes,         \* the paths cq.exporters.export has written, in order
    epc,            \* position in export_models: idle, entry, loop, returned, raised
    ei,             \* index of the next item of kwargs.items()
    makedirs_calls, \* number of calls of os.makedirs
    export_calls,   \* number of calls of cq_utils.export_models
    show_calls,     \* number of calls of cq_utils.show_models
    shown,          \* the names show_models went through
    serror,         \* the exception that ended the script, if any
    \* ---- the module honeycomb across a sequence of calls ----
    axis_to_plane,  \* the module table _AXIS_TO_PLANE
    plane_axes,     \* the module table _PLANE_AXES
    hist,           \* the calls made so far: function, arguments, outcome
    \* ---- step-display-stand.py: assembly_stand(...) ----
    stand_args,     \* the arguments, as passed
    stand,          \* the locals: position, num_steps, offsets (doubled), loop index
    stand_steps,    \* one record per step generated and combined, in order
    stand_hcalls,   \* the calls of honeycomb.apply_honeycomb, in order
    stand_error,    \* the exception that left assembly_stand, if any
    \* ---- tampering-station.py: configuration, derived dimensions, checks ----
    station_cfg,    \* the configuration constants, as written in the script
    station,        \* position in the script and the derived dimensions
    station_error,  \* the exception that ended the script, if any
    \* ---- phono-preamp-psu.py: the vents and the enclosure ----
    vent_args,      \* which vent function is called, area_length, spacing
    vent,           \* the locals: position, n, loop index
    vent_ys,        \* the slot centres so far, each times 2 * n
    encl_args,      \* the six solids handed to add_aligments_assemble
    encl            \* its position and the pair it returns

hexvars == <<width, height, cell_size, hpc, n_cols, n_rows, col, row, y0s,
             out, prev, calls>>

appvars == <<wall, edge_width, shell_thickness, normal_axis, apc, orientation,
             shell_only, pattern, infill, result, error, ops>>

orvars == <<ocalls, prev_result>>

\* the variables neither _hex_centers nor apply_honeycomb touches
scriptvars == <<spc, to_build, models, stl_export, step_export, had_dir, dirs,
                writes, epc, ei, makedirs_calls, export_calls, show_calls,
                shown, serror>>

tablevars == <<axis_to_plane, plane_axes, hist>>

standvars == <<stand_args, stand, stand_steps, stand_hcalls, stand_error>>

stationvars == <<station_cfg, station, station_error>>

ventvars == <<vent_args, vent, vent_ys>>

enclvars == <<encl_args, encl>>

restvars == <<orvars, scriptvars, tablevars, standvars, stationvars, ventvars, enclvars>>

vars == <<hexvars, appvars, restvars>>

-----------------------------------------------------------------------------
(* Bounds of the model *)

MaxDim == 6         \* width, height range up to MaxDim
NegDim == 8         \* ... and down to -NegDim (non-positive spans)
MaxCell == 2        \* cell_size ranges over 1..MaxCell
MaxCalls == 2       \* calls of _hex_centers with the same arguments
SampleDen == 2      \* rectangle points are sampled every 1/(2*SampleDen) unit
MaxLen == 3         \* bounding-box extents range over 1..MaxLen
MaxOff == 1         \* a bounding box starts at 0 or at -MaxOff on an axis
MaxEdge == 5        \* edge_width ranges over 0..MaxEdge
MaxShell == 1       \* shell_thickness ranges over 1..MaxShell
FillDen == 1        \* solids are sampled every 1/(2*FillDen) unit in the tiling plane
MaxModels == 2      \* a script has at most MaxModels models
MaxSteps == 3       \* num_steps ranges over -1..MaxSteps
MaxStepHeight == 4  \* step_height ranges over 1..MaxStepHeight
MaxArea == 12       \* area_length ranges over 1..MaxArea
MaxSpacing == 5     \* spacing ranges over 1..MaxSpacing
MaxCells == 2       \* a solid is a set of unit cells out of 1..MaxCells

-----------------------------------------------------------------------------
(* Exact arithmetic helpers *)

Max(a, b) == IF a >= b THEN a ELSE b

Abs(a) == IF a >= 0 THEN a ELSE -a

\* math.ceil(a / b) for integers a and b > 0
CeilDiv(a, b) == -((-a) \div b)

\* math.ceil(a / (sqrt(3) * b)) for integers a and b > 0
CeilDivSqrt3(a, b) ==
    IF a > 0
    THEN CHOOSE n \in 1..a :
            /\ 3 * n * n * b * b >= a * a
            /\ 3 * (n - 1) * (n - 1) * b * b < a * a
    ELSE -(CHOOSE n \in 0..(-a) :
            /\ 3 * n * n * b * b <= a * a
            /\ 3 * (n + 1) * (n + 1) * b * b > a * a)

\* a <= b * sqrt(3) for integers a, b
LeqSqrt3(a, b) ==
    IF b >= 0
    THEN a <= 0 \/ a * a <= 3 * b * b
    ELSE a <= 0 /\ a * a >= 3 * b * b

-----------------------------------------------------------------------------
(* _hex_centers *)

\* span_x without the margin of one cell on each side
SpanXNoMargin(w, c) == w

\* span_x = width + 2 * cell_size
SpanX(w, c) == w + 2 * c

\* span_y = height + 2 * cell_size
SpanY(h, c) == h + 2 * c

\* n_cols without the lower limit of one column
NColsNoMax(w, c) == CeilDiv(2 * SpanX(w, c), 3 * c) + 1

\* n_cols without the closing column
NColsNoPlusOne(w, c) == Max(1, CeilDiv(2 * SpanX(w, c), 3 * c))

\* n_cols = max(1, int(math.ceil(span_x / x_step)) + 1), x_step = 1.5 * cell_size
NCols(w, c) == Max(1, CeilDiv(2 * SpanX(w, c), 3 * c) + 1)

\* n_rows = max(1, int(math.ceil(span_y / y_step)) + 1), y_step = sqrt(3) * cell_size
NRows(h, c) == Max(1, CeilDivSqrt3(SpanY(h, c), c) + 1)

\* x0 without the division by two: the lattice is not centred
X0NotHalved(nc, c) == -((nc - 1) * 6 * c)

\* x0 = -(n_cols - 1) * x_step / 2.0, times 4
X0(nc, c) == -((nc - 1) * 3 * c)

\* y0_base = -(n_rows - 1) * y_step / 2.0, in sqrt(3)/2 units
Y0Base(nr, c) == -((nr - 1) * c)

\* y_offset applied to the even columns instead of the odd ones
YOffsetEven(cl, c) == IF cl % 2 = 0 THEN c ELSE 0

\* y_offset = (hex_height / 2.0) if (col % 2 == 1) else 0.0, in sqrt(3)/2 units
YOffset(cl, c) == IF cl % 2 = 1 THEN c ELSE 0

\* y0 = y0_base + y_offset
Y0(nr, cl, c) == Y0Base(nr, c) + YOffset(cl, c)

\* the pair yielded: (x0 + col * x_step, y0 + row * y_step)
Center(nc, cl, rw, y0, c) == <<X0(nc, c) + cl * 6 * c, y0 + rw * 2 * c>>

\* list(_hex_centers(width, height, cell_size)): the whole run of the generator
HexCenters(w, h, c) ==
    LET nc == NCols(w, c)
        nr == NRows(h, c)
    IN  [i \in 1..(nc * nr) |->
            LET cl == (i - 1) \div nr
                rw == (i - 1) % nr
            IN  Center(nc, cl, rw, Y0(nr, cl, c), c)]

Dims == (-NegDim)..MaxDim

\* no call of _hex_centers is in progress
HexIdle ==
    /\ hpc = "idle"
    /\ n_cols = 0
    /\ n_rows = 0
    /\ col = 0
    /\ row = 0
    /\ y0s = 0
    /\ out = <<>>
    /\ prev = <<>>
    /\ calls = 0

\* _resolve_orientation has not been called on its own
OrientIdle ==
    /\ ocalls = 0
    /\ prev_result = [error |-> "", dict |-> [plane |-> ""]]

\* _AXIS_TO_PLANE with the planes of X and Y exchanged
AxisToPlaneSwapped == [X |-> "XZ", Y |-> "YZ", Z |-> "XY"]

\* _AXIS_TO_PLANE
AxisToPlane == [X |-> "YZ", Y |-> "XZ", Z |-> "XY"]

\* _PLANE_AXES
PlaneAxes == [XY |-> <<"X", "Y">>, YZ |-> <<"Y", "Z">>, XZ |-> <<"X", "Z">>]

\* the module honeycomb as loaded (lines 42-52), no call made yet
TablesIdle ==
    /\ axis_to_plane = AxisToPlane
    /\ plane_axes = PlaneAxes
    /\ hist = <<>>

\* add_aligments_assemble is not running
EnclIdle ==
    /\ encl_args = [bottom |-> {}, rear |-> {}, top |-> {}, front |-> {},
                    left |-> {}, right |-> {}]
    /\ encl = [pc |-> "idle"]

\* no vent function is running
VentIdle ==
    /\ vent_args = [fn |-> ""]
    /\ vent = [pc |-> "idle"]
    /\ vent_ys = <<>>

\* tampering-station.py is not running
StationIdle ==
    /\ station_cfg = [MARGIN |-> 0]
    /\ station = [pc |-> "idle"]
    /\ station_error = ""

\* no call of assembly_stand is in progress
StandIdle ==
    /\ stand_args = [num_steps |-> 0]
    /\ stand = [pc |-> "idle"]
    /\ stand_steps = <<>>
    /\ stand_hcalls = <<>>
    /\ stand_error = ""

\* no script is running
ScriptIdle ==
    /\ spc = "idle"
    /\ to_build = <<>>
    /\ models = <<>>
    /\ stl_export = TRUE
    /\ step_export = FALSE
    /\ had_dir = FALSE
    /\ dirs = {}
    /\ writes = <<>>
    /\ epc = "idle"
    /\ ei = 0
    /\ makedirs_calls = 0
    /\ export_calls = 0
    /\ show_calls = 0
    /\ shown = <<>>
    /\ serror = ""

\* no call of apply_honeycomb is in progress
AppIdle ==
    /\ wall = [xmin |-> 0, xmax |-> 0, ymin |-> 0, ymax |-> 0, zmin |-> 0, zmax |-> 0]
    /\ edge_width = 0
    /\ shell_thickness = 0
    /\ normal_axis = [is_none |-> TRUE, str |-> ""]
    /\ apc = "idle"
    /\ orientation = [plane |-> ""]
    /\ shell_only = [op |-> "none"]
    /\ pattern = [op |-> "none"]
    /\ infill = [op |-> "none"]
    /\ result = [op |-> "none"]
    /\ error = ""
    /\ ops = <<>>

InitHex ==
    /\ width \in Dims
    /\ height \in Dims
    /\ cell_size \in 1..MaxCell
    /\ AppIdle
    /\ OrientIdle
    /\ EnclIdle
    /\ VentIdle
    /\ StationIdle
    /\ StandIdle
    /\ TablesIdle
    /\ ScriptIdle
    /\ hpc = "idle"
    /\ n_cols = 0
    /\ n_rows = 0
    /\ col = 0
    /\ row = 0
    /\ y0s = 0
    /\ out = <<>>
    /\ prev = <<>>
    /\ calls = 0

\* the generator is called and run up to its first loop head
HexCall ==
    /\ hpc = "idle"
    /\ calls < MaxCalls
    /\ calls' = calls + 1
    /\ n_cols' = NCols(width, cell_size)
    /\ n_rows' = NRows(height, cell_size)
    /\ col' = 0
    /\ row' = 0
    /\ y0s' = 0
    /\ out' = <<>>
    /\ hpc' = "col_head"
    /\ UNCHANGED appvars
    /\ UNCHANGED restvars
    /\ UNCHANGED <<width, height, cell_size, prev>>

\* for col in range(n_cols): the body up to the inner loop head
HexColumn ==
    /\ hpc = "col_head"
    /\ col < n_cols
    /\ y0s' = Y0(n_rows, col, cell_size)
    /\ row' = 0
    /\ hpc' = "row_loop"
    /\ UNCHANGED appvars
    /\ UNCHANGED restvars
    /\ UNCHANGED <<width, height, cell_size, n_cols, n_rows, col, out, prev, calls>>

\* for row in range(n_rows): yield ...
HexYield ==
    /\ hpc = "row_loop"
    /\ row < n_rows
    /\ out' = Append(out, Center(n_cols, col, row, y0s, cell_size))
    /\ row' = row + 1
    /\ UNCHANGED appvars
    /\ UNCHANGED restvars
    /\ UNCHANGED <<width, height, cell_size, hpc, n_cols, n_rows, col, y0s, prev, calls>>

\* the inner loop is exhausted: next column
HexRowsDone ==
    /\ hpc = "row_loop"
    /\ row >= n_rows
    /\ col' = col + 1
    /\ hpc' = "col_head"
    /\ UNCHANGED appvars
    /\ UNCHANGED restvars
    /\ UNCHANGED <<width, height, cell_size, n_cols, n_rows, row, y0s, out, prev, calls>>

\* the outer loop is exhausted: the generator returns (StopIteration)
HexExhausted ==
    /\ hpc = "col_head"
    /\ col >= n_cols
    /\ hpc' = "done"
    /\ UNCHANGED appvars
    /\ UNCHANGED restvars
    /\ UNCHANGED <<width, height, cell_size, n_cols, n_rows, col, row, y0s, out, prev, calls>>

\* the caller keeps the list and is free to call again with the same arguments
HexReturn ==
    /\ hpc = "done"
    /\ calls < MaxCalls
    /\ prev' = out
    /\ hpc' = "idle"
    /\ UNCHANGED appvars
    /\ UNCHANGED restvars
    /\ UNCHANGED <<width, height, cell_size, n_cols, n_rows, col, row, y0s, out, calls>>

NextHex ==
    \/ HexCall
    \/ HexColumn
    \/ HexYield
    \/ HexRowsDone
    \/ HexExhausted
    \/ HexReturn

SpecHex == InitHex /\ [][NextHex]_vars

\* SpecHex with the scheduling the code has: list(...) drives the generator to
\* its end, nothing else runs
SpecHexFair == InitHex /\ [][NextHex]_vars /\ WF_vars(NextHex)

-----------------------------------------------------------------------------
(* _honeycomb_grid *)

\* Solids are opaque to the program: the model keeps the term that built each.

\* cq.Workplane(plane).pushPoints(centers).polygon(6, diameter)
\*   .extrude(thickness / 2.0, both=True, combine=True).combineSolids():
\* hexagon prisms of total depth `depth`, centred on the plane
Prisms(plane, centers, diameter, depth) ==
    [op |-> "prisms", plane |-> plane, centers |-> centers,
     diameter |-> diameter, depth |-> depth]

\* inner_r with abs() in place of the clamp at zero
InnerR2Abs(c, e) == Abs(2 * c - e)

\* inner_r = max(cell_size - edge_width / 2.0, 0), times 2: the diameter
\* 2 * inner_r passed to polygon()
InnerR2(c, e) == Max(2 * c - e, 0)

\* _honeycomb_grid with the inner cut skipped when the inner hexagon is as
\* large as the outer one
HoneycombGridGuarded(w, h, c, e, t, plane) ==
    LET centers == HexCenters(w, h, c)
        outer == Prisms(plane, centers, 2 * c, t)
        inner_r2 == InnerR2(c, e)
    IN  IF centers = <<>>
        THEN [solid |-> [op |-> "workplane", plane |-> plane], ops |-> <<>>]
        ELSE IF inner_r2 > 0 /\ inner_r2 < 2 * c
        THEN [solid |-> [op |-> "cut", a |-> outer,
                         b |-> Prisms(plane, centers, inner_r2, t)],
              ops |-> <<"extrude", "extrude", "cut">>]
        ELSE [solid |-> outer, ops |-> <<"extrude">>]

\* _honeycomb_grid(width, height, cell_size, edge_width, thickness, plane):
\* the solid returned and the geometry operations performed, in order
HoneycombGrid(w, h, c, e, t, plane) ==
    LET centers == HexCenters(w, h, c)
        outer == Prisms(plane, centers, 2 * c, t)
        inner_r2 == InnerR2(c, e)
    IN  IF centers = <<>>
        THEN [solid |-> [op |-> "workplane", plane |-> plane], ops |-> <<>>]
        ELSE IF inner_r2 > 0
        THEN [solid |-> [op |-> "cut", a |-> outer,
                         b |-> Prisms(plane, centers, inner_r2, t)],
              ops |-> <<"extrude", "extrude", "cut">>]
        ELSE [solid |-> outer, ops |-> <<"extrude">>]

-----------------------------------------------------------------------------
(* _resolve_orientation *)

Axes == {"X", "Y", "Z"}

\* the strings the model passes as normal_axis
AxisStrings == {"X", "Y", "Z", "x", "y", "z", "W", "w", ""}

\* str.upper() on those strings
Upper(str) ==
    CASE str = "x" -> "X"
      [] str = "y" -> "Y"
      [] str = "z" -> "Z"
      [] str = "w" -> "W"
      [] OTHER -> str

\* lengths = { "X": bb.xlen, "Y": bb.ylen, "Z": bb.zlen }
Lengths(bb) ==
    [X |-> bb.xmax - bb.xmin, Y |-> bb.ymax - bb.ymin, Z |-> bb.zmax - bb.zmin]

\* centers = { "X": (bb.xmin + bb.xmax) / 2.0, ... }, times 2
Centers2(bb) ==
    [X |-> bb.xmin + bb.xmax, Y |-> bb.ymin + bb.ymax, Z |-> bb.zmin + bb.zmax]

\* min() taking the last of several minimal axes
MinAxisLast(lengths) ==
    IF lengths["Z"] <= lengths["X"] /\ lengths["Z"] <= lengths["Y"] THEN "Z"
    ELSE IF lengths["Y"] <= lengths["X"] THEN "Y"
    ELSE "X"

\* min() whose choice among several minimal axes changes from call to call
MinAxisUnstable(lengths) ==
    IF ocalls % 2 = 0
    THEN (IF lengths["X"] <= lengths["Y"] /\ lengths["X"] <= lengths["Z"] THEN "X"
          ELSE IF lengths["Y"] <= lengths["Z"] THEN "Y"
          ELSE "Z")
    ELSE MinAxisLast(lengths)

\* min(lengths, key=lengths.get): the first key, in the dict's order X, Y, Z,
\* whose value is minimal
MinAxis(lengths) ==
    IF lengths["X"] <= lengths["Y"] /\ lengths["X"] <= lengths["Z"] THEN "X"
    ELSE IF lengths["Y"] <= lengths["Z"] THEN "Y"
    ELSE "Z"

\* the axis resolved without looking at the override
ResolvedAxisIgnoringOverride(bb, na) == MinAxis(Lengths(bb))

\* lines 120-123: the normal axis, before it is validated
ResolvedAxis(bb, na) ==
    IF na.is_none THEN MinAxis(Lengths(bb)) ELSE Upper(na.str)

\* the validation left out
OrientationRaisesNever(bb, na) == FALSE

\* lines 124-125: raise ValueError
OrientationRaises(bb, na) ==
    ~na.is_none /\ ResolvedAxis(bb, na) \notin DOMAIN AxisToPlane

\* the exception that leaves _resolve_orientation, "" when it returns:
\* the ValueError of line 125, or the KeyError of the lookup of line 127
ResolveError(bb, na) ==
    IF OrientationRaises(bb, na) THEN "ValueError"
    ELSE IF ResolvedAxis(bb, na) \notin DOMAIN AxisToPlane THEN "KeyError"
    ELSE ""

\* the dict returned with the translation set in the tiling plane only
OrientationDictPlaneOnly(bb, axis) ==
    LET plane == AxisToPlane[axis]
        axis_u == PlaneAxes[plane][1]
        axis_v == PlaneAxes[plane][2]
        translation == [a \in Axes |->
                           IF a \in {axis_u, axis_v} THEN Centers2(bb)[a] ELSE 0]
    IN  [plane |-> plane,
         width |-> Lengths(bb)[axis_u],
         height |-> Lengths(bb)[axis_v],
         thickness |-> Lengths(bb)[axis],
         translation |-> <<translation["X"], translation["Y"], translation["Z"]>>,
         normal_axis |-> axis]

\* lines 127-142: the dict returned for a valid axis.  translation holds
\* twice the source's values (the centres are halves of integers).
OrientationDict(bb, axis) ==
    LET plane == AxisToPlane[axis]
        axis_u == PlaneAxes[plane][1]
        axis_v == PlaneAxes[plane][2]
        translation == [a \in Axes |->
                           IF a \in {axis_u, axis_v, axis} THEN Centers2(bb)[a] ELSE 0]
    IN  [plane |-> plane,
         width |-> Lengths(bb)[axis_u],
         height |-> Lengths(bb)[axis_v],
         thickness |-> Lengths(bb)[axis],
         translation |-> <<translation["X"], translation["Y"], translation["Z"]>>,
         normal_axis |-> axis]

\* _resolve_orientation(solid, normal_axis) when it returns
ResolveOrientation(bb, na) == OrientationDict(bb, ResolvedAxis(bb, na))

-----------------------------------------------------------------------------
(* apply_honeycomb *)

\* the wall as a solid term
WallSolid(bb) == [op |-> "wall", bb |-> bb]

\* the bounding boxes of the model's walls
Walls ==
    { [xmin |-> x0, xmax |-> x0 + xl, ymin |-> y0, ymax |-> y0 + yl,
       zmin |-> z0, zmax |-> z0 + zl] :
         x0 \in {0, -MaxOff}, y0 \in {0, -MaxOff}, z0 \in {0, -MaxOff},
         xl \in 1..MaxLen, yl \in 1..MaxLen, zl \in 1..MaxLen }

\* the values of normal_axis
NormalAxisArgs ==
    {[is_none |-> TRUE, str |-> ""]} \cup {[is_none |-> FALSE, str |-> a] : a \in AxisStrings}

\* the frame of apply_honeycomb on entry
AppEntry ==
    /\ apc = "call"
    /\ orientation = [plane |-> ""]
    /\ shell_only = [op |-> "none"]
    /\ pattern = [op |-> "none"]
    /\ infill = [op |-> "none"]
    /\ result = [op |-> "none"]
    /\ error = ""
    /\ ops = <<>>

\* apply_honeycomb is entered with arguments of the model's ranges
InitRanges ==
    /\ wall \in Walls
    /\ cell_size \in 1..MaxCell
    /\ edge_width \in 0..MaxEdge
    /\ shell_thickness \in 1..MaxShell
    /\ normal_axis \in NormalAxisArgs

\* ... or with the boundary scenario: a 100 x 60 x 5 wall, cell_size = 20,
\* edge_width = 8, no override
InitScenario ==
    /\ wall = [xmin |-> 0, xmax |-> 100, ymin |-> 0, ymax |-> 60, zmin |-> 0, zmax |-> 5]
    /\ cell_size = 20
    /\ edge_width = 8
    /\ shell_thickness = 1
    /\ normal_axis = [is_none |-> TRUE, str |-> ""]

Init ==
    /\ width = 0
    /\ height = 0
    /\ HexIdle
    /\ OrientIdle
    /\ EnclIdle
    /\ VentIdle
    /\ StationIdle
    /\ StandIdle
    /\ TablesIdle
    /\ ScriptIdle
    /\ AppEntry
    /\ (InitRanges \/ InitScenario)

argvars == <<wall, cell_size, edge_width, shell_thickness, normal_axis>>

\* lines 153-154, _resolve_orientation raises: nothing in apply_honeycomb
\* catches the exception, which leaves it
ApplyRaise ==
    /\ apc = "call"
    /\ ResolveError(wall, normal_axis) # ""
    /\ error' = ResolveError(wall, normal_axis)
    /\ apc' = "raised"
    /\ UNCHANGED <<orientation, shell_only, pattern, infill, result, ops>>
    /\ UNCHANGED restvars
    /\ UNCHANGED <<argvars, width, height, hpc, n_cols, n_rows, col, row, y0s, out, prev, calls>>

\* lines 153-154: orientation = _resolve_orientation(solid, normal_axis)
ApplyResolve ==
    /\ apc = "call"
    /\ ResolveError(wall, normal_axis) = ""
    /\ orientation' = ResolveOrientation(wall, normal_axis)
    /\ apc' = "resolved"
    /\ UNCHANGED <<shell_only, pattern, infill, result, error, ops>>
    /\ UNCHANGED restvars
    /\ UNCHANGED <<argvars, width, height, hpc, n_cols, n_rows, col, row, y0s, out, prev, calls>>

\* lines 157-158 with the thickness clamped to half the wall's thickness
ApplyShellClamped ==
    /\ apc = "resolved"
    /\ shell_only' = [op |-> "shell", of |-> WallSolid(wall),
                      faces |-> [plus |-> orientation.normal_axis,
                                 minus |-> orientation.normal_axis],
                      thickness |-> IF 2 * shell_thickness >= orientation.thickness
                                    THEN -(orientation.thickness \div 2)
                                    ELSE -shell_thickness,
                      kind |-> "intersection"]
    /\ ops' = Append(ops, "shell")
    /\ apc' = "shelled"
    /\ UNCHANGED <<orientation, pattern, infill, result, error>>
    /\ UNCHANGED restvars
    /\ UNCHANGED <<argvars, width, height, hpc, n_cols, n_rows, col, row, y0s, out, prev, calls>>

\* lines 157-158: shell_only = wall.faces(selector).shell(-shell_thickness, kind='intersection')
ApplyShell ==
    /\ apc = "resolved"
    /\ shell_only' = [op |-> "shell", of |-> WallSolid(wall),
                      faces |-> [plus |-> orientation.normal_axis,
                                 minus |-> orientation.normal_axis],
                      thickness |-> -shell_thickness, kind |-> "intersection"]
    /\ ops' = Append(ops, "shell")
    /\ apc' = "shelled"
    /\ UNCHANGED <<orientation, pattern, infill, result, error>>
    /\ UNCHANGED restvars
    /\ UNCHANGED <<argvars, width, height, hpc, n_cols, n_rows, col, row, y0s, out, prev, calls>>

\* lines 161-168: pattern = _honeycomb_grid(...)
ApplyPattern ==
    /\ apc = "shelled"
    /\ LET g == HoneycombGrid(orientation.width, orientation.height, cell_size,
                              edge_width, orientation.thickness, orientation.plane)
       IN  /\ pattern' = g.solid
           /\ ops' = ops \o g.ops
    /\ apc' = "patterned"
    /\ UNCHANGED <<orientation, shell_only, infill, result, error>>
    /\ UNCHANGED restvars
    /\ UNCHANGED <<argvars, width, height, hpc, n_cols, n_rows, col, row, y0s, out, prev, calls>>

\* line 169: pattern = pattern.translate(orientation["translation"])
ApplyTranslate ==
    /\ apc = "patterned"
    /\ pattern' = [op |-> "translate", of |-> pattern, by |-> orientation.translation]
    /\ ops' = Append(ops, "translate")
    /\ apc' = "translated"
    /\ UNCHANGED <<orientation, shell_only, infill, result, error>>
    /\ UNCHANGED restvars
    /\ UNCHANGED <<argvars, width, height, hpc, n_cols, n_rows, col, row, y0s, out, prev, calls>>

\* line 172 with the shell intersected in place of the original wall
ApplyIntersectShell ==
    /\ apc = "translated"
    /\ infill' = [op |-> "intersect", a |-> shell_only, b |-> pattern]
    /\ ops' = Append(ops, "intersect")
    /\ apc' = "intersected"
    /\ UNCHANGED <<orientation, shell_only, pattern, result, error>>
    /\ UNCHANGED restvars
    /\ UNCHANGED <<argvars, width, height, hpc, n_cols, n_rows, col, row, y0s, out, prev, calls>>

\* line 172: infill = wall.intersect(pattern)
ApplyIntersect ==
    /\ apc = "translated"
    /\ infill' = [op |-> "intersect", a |-> WallSolid(wall), b |-> pattern]
    /\ ops' = Append(ops, "intersect")
    /\ apc' = "intersected"
    /\ UNCHANGED <<orientation, shell_only, pattern, result, error>>
    /\ UNCHANGED restvars
    /\ UNCHANGED <<argvars, width, height, hpc, n_cols, n_rows, col, row, y0s, out, prev, calls>>

\* line 174 with the pattern united in place of the infill
ApplyUnionPattern ==
    /\ apc = "intersected"
    /\ result' = [op |-> "union", a |-> shell_only, b |-> pattern]
    /\ ops' = Append(ops, "union")
    /\ apc' = "returned"
    /\ UNCHANGED <<orientation, shell_only, pattern, infill, error>>
    /\ UNCHANGED restvars
    /\ UNCHANGED <<argvars, width, height, hpc, n_cols, n_rows, col, row, y0s, out, prev, calls>>

\* line 174 returning the shell alone
ApplyUnionShellOnly ==
    /\ apc = "intersected"
    /\ result' = [op |-> "union", a |-> shell_only, b |-> shell_only]
    /\ ops' = Append(ops, "union")
    /\ apc' = "returned"
    /\ UNCHANGED <<orientation, shell_only, pattern, infill, error>>
    /\ UNCHANGED restvars
    /\ UNCHANGED <<argvars, width, height, hpc, n_cols, n_rows, col, row, y0s, out, prev, calls>>

\* line 174: return shell_only.union(infill)
ApplyUnion ==
    /\ apc = "intersected"
    /\ result' = [op |-> "union", a |-> shell_only, b |-> infill]
    /\ ops' = Append(ops, "union")
    /\ apc' = "returned"
    /\ UNCHANGED <<orientation, shell_only, pattern, infill, error>>
    /\ UNCHANGED restvars
    /\ UNCHANGED <<argvars, width, height, hpc, n_cols, n_rows, col, row, y0s, out, prev, calls>>

\* A geometry operation of the kernel raises.  apply_honeycomb (lines 144-174)
\* has no try statement: the exception leaves the function at the operation
\* that raised, after the operations in `attempted` were started, and no
\* assignment of that statement or of a later one takes place.
KernelFails(pos, attempted) ==
    /\ apc = pos
    /\ error' = "KernelError"
    /\ ops' = ops \o attempted
    /\ apc' = "raised"
    /\ UNCHANGED <<orientation, shell_only, pattern, infill, result>>
    /\ UNCHANGED restvars
    /\ UNCHANGED <<argvars, width, height, hpc, n_cols, n_rows, col, row, y0s, out, prev, calls>>

\* line 158: the shell operation raises
ApplyShellFails == KernelFails("resolved", <<"shell">>)

\* lines 161-168: an extrude or the cut of _honeycomb_grid (lines 85-102) raises
ApplyPatternFails ==
    /\ apc = "shelled"
    /\ \E k \in 1..3 :
        LET g == HoneycombGrid(orientation.width, orientation.height, cell_size,
                               edge_width, orientation.thickness, orientation.plane)
        IN  /\ k <= Len(g.ops)
            /\ KernelFails("shelled", SubSeq(g.ops, 1, k))

\* line 172: the intersection raises
ApplyIntersectFails == KernelFails("translated", <<"intersect">>)

\* line 174 raising, the exception caught and the shell returned in place of
\* the union
ApplyUnionFailsPartial ==
    /\ apc = "intersected"
    /\ error' = "KernelError"
    /\ ops' = Append(ops, "union")
    /\ result' = shell_only
    /\ apc' = "returned"
    /\ UNCHANGED <<orientation, shell_only, pattern, infill>>
    /\ UNCHANGED restvars
    /\ UNCHANGED <<argvars, width, height, hpc, n_cols, n_rows, col, row, y0s, out, prev, calls>>

\* line 174: the union raises
ApplyUnionFails == KernelFails("intersected", <<"union">>)

Next ==
    \/ ApplyRaise
    \/ ApplyResolve
    \/ ApplyShell
    \/ ApplyPattern
    \/ ApplyTranslate
    \/ ApplyIntersect
    \/ ApplyUnion
    \/ ApplyShellFails
    \/ ApplyPatternFails
    \/ ApplyIntersectFails
    \/ ApplyUnionFails

Spec == Init /\ [][Next]_vars

-----------------------------------------------------------------------------
(* What the solid terms stand for, in the tiling plane.                      *)
(* Every solid of apply_honeycomb spans the wall's whole thickness along the *)
(* normal axis, so a solid is known by its section in the tiling plane.  The *)
(* wall is the box of its bounding box.  A point of the plane is (p, q):     *)
(* coordinates p / (2*FillDen) and q / (2*FillDen) along the plane's first   *)
(* and second axis.                                                          *)

\* a < b * sqrt(3) for integers a, b
LtSqrt3(a, b) == ~LeqSqrt3(-a, -b)

\* the lowest and highest coordinate of a bounding box along an axis
BBMin(bb, a) ==
    CASE a = "X" -> bb.xmin
      [] a = "Y" -> bb.ymin
      [] a = "Z" -> bb.zmin

BBMax(bb, a) ==
    CASE a = "X" -> bb.xmax
      [] a = "Y" -> bb.ymax
      [] a = "Z" -> bb.zmax

\* the position of an axis in a (x, y, z) tuple
TupleIndex(a) ==
    CASE a = "X" -> 1
      [] a = "Y" -> 2
      [] a = "Z" -> 3

\* the point lies in the box, faces included
InBox(p, q, bb, uv) ==
    /\ 2 * FillDen * BBMin(bb, uv[1]) <= p
    /\ p <= 2 * FillDen * BBMax(bb, uv[1])
    /\ 2 * FillDen * BBMin(bb, uv[2]) <= q
    /\ q <= 2 * FillDen * BBMax(bb, uv[2])

\* the point lies within distance t of a side face of the box, inside it
NearSideFace(p, q, bb, uv, t) ==
    \/ p - 2 * FillDen * BBMin(bb, uv[1]) <= 2 * FillDen * t
    \/ 2 * FillDen * BBMax(bb, uv[1]) - p <= 2 * FillDen * t
    \/ q - 2 * FillDen * BBMin(bb, uv[2]) <= 2 * FillDen * t
    \/ 2 * FillDen * BBMax(bb, uv[2]) - q <= 2 * FillDen * t

\* polygon(6, diameter) about ctr = <<x4, ys>>: the regular hexagon with two
\* of its vertices on the local x axis, at distance diameter / 2.  With
\* X = 4*FillDen*dx and 4*FillDen*dy = a + b*sqrt(3), the point is in it iff
\* |dy| <= m*sqrt(3) for m = min(R/2, R - |X|), R = 4*FillDen*diameter/2.
HexSlack(p, ctr, diameter) ==
    LET X == Abs(2 * p - FillDen * ctr[1])
        R == 2 * FillDen * diameter
    IN  IF R - X <= FillDen * diameter THEN R - X ELSE FillDen * diameter

InHexagon(p, q, ctr, diameter) ==
    LET m == HexSlack(p, ctr, diameter)
        b == -(2 * FillDen * ctr[2])
    IN  /\ m >= 0
        /\ LeqSqrt3(2 * q, m - b)
        /\ LeqSqrt3(-(2 * q), m + b)

\* the point lies in the hexagon and not on its boundary
InsideHexagon(p, q, ctr, diameter) ==
    LET m == HexSlack(p, ctr, diameter)
        b == -(2 * FillDen * ctr[2])
    IN  /\ m > 0
        /\ LtSqrt3(2 * q, m - b)
        /\ LtSqrt3(-(2 * q), m + b)

\* the point lies in the solid (Member), or in it and off its boundary
\* (Inside).  uv: the axes of the tiling plane.
RECURSIVE Member(_, _, _, _), Inside(_, _, _, _)
Member(p, q, solid, uv) ==
    CASE solid.op = "wall" -> InBox(p, q, solid.bb, uv)
      [] solid.op = "shell" ->
            \* the faces named are removed and the others thickened: inwards
            \* for a negative thickness, which leaves a frame along the sides
            /\ solid.thickness < 0
            /\ Member(p, q, solid.of, uv)
            /\ NearSideFace(p, q, solid.of.bb, uv, -solid.thickness)
      [] solid.op = "prisms" ->
            \E i \in DOMAIN solid.centers :
                InHexagon(p, q, solid.centers[i], solid.diameter)
      [] solid.op = "cut" ->
            Member(p, q, solid.a, uv) /\ ~Inside(p, q, solid.b, uv)
      [] solid.op = "translate" ->
            Member(p - FillDen * solid.by[TupleIndex(uv[1])],
                   q - FillDen * solid.by[TupleIndex(uv[2])], solid.of, uv)
      [] solid.op = "intersect" ->
            Member(p, q, solid.a, uv) /\ Member(p, q, solid.b, uv)
      [] solid.op = "union" ->
            Member(p, q, solid.a, uv) \/ Member(p, q, solid.b, uv)
      [] OTHER -> FALSE

Inside(p, q, solid, uv) ==
    CASE solid.op = "prisms" ->
            \E i \in DOMAIN solid.centers :
                InsideHexagon(p, q, solid.centers[i], solid.diameter)
      [] OTHER -> FALSE

\* apply_honeycomb entered on a box whose three faces start together at 0 or
\* at -MaxOff, with no override or an upper-case one
FillWalls ==
    { [xmin |-> o, xmax |-> o + xl, ymin |-> o, ymax |-> o + yl,
       zmin |-> o, zmax |-> o + zl] :
         o \in {0, -MaxOff},
         xl \in 1..MaxLen, yl \in 1..MaxLen, zl \in 1..MaxLen }

InitFill ==
    /\ width = 0
    /\ height = 0
    /\ HexIdle
    /\ OrientIdle
    /\ EnclIdle
    /\ VentIdle
    /\ StationIdle
    /\ StandIdle
    /\ TablesIdle
    /\ ScriptIdle
    /\ AppEntry
    /\ wall \in FillWalls
    /\ cell_size \in 1..MaxCell
    /\ edge_width \in 0..MaxEdge
    /\ shell_thickness \in 1..MaxShell
    /\ normal_axis \in {[is_none |-> TRUE, str |-> ""]}
                       \cup {[is_none |-> FALSE, str |-> a] : a \in {"X", "Y", "Z", "W"}}

\* apply_honeycomb on those inputs
SpecFill == InitFill /\ [][Next]_vars

-----------------------------------------------------------------------------
(* _resolve_orientation called again and again on the same solid *)

\* the cube of the tie-break scenario: bounding box 10 x 10 x 10
CubeWall == [xmin |-> 0, xmax |-> 10, ymin |-> 0, ymax |-> 10, zmin |-> 0, zmax |-> 10]

InitOrient ==
    /\ width = 0
    /\ height = 0
    /\ cell_size = 1
    /\ HexIdle
    /\ OrientIdle
    /\ EnclIdle
    /\ VentIdle
    /\ StationIdle
    /\ StandIdle
    /\ TablesIdle
    /\ ScriptIdle
    /\ wall \in Walls \cup {CubeWall}
    /\ normal_axis \in NormalAxisArgs
    /\ edge_width = 0
    /\ shell_thickness = 0
    /\ apc = "idle"
    /\ orientation = [plane |-> ""]
    /\ shell_only = [op |-> "none"]
    /\ pattern = [op |-> "none"]
    /\ infill = [op |-> "none"]
    /\ result = [op |-> "none"]
    /\ error = ""
    /\ ops = <<>>

\* a call of _resolve_orientation(solid, normal_axis) that returns its dict
OrientReturn ==
    /\ apc = "idle"
    /\ ocalls < MaxCalls
    /\ ResolveError(wall, normal_axis) = ""
    /\ prev_result' = [error |-> error, dict |-> orientation]
    /\ orientation' = ResolveOrientation(wall, normal_axis)
    /\ error' = ""
    /\ ocalls' = ocalls + 1
    /\ UNCHANGED <<argvars, apc, shell_only, pattern, infill, result, ops>>
    /\ UNCHANGED scriptvars
    /\ UNCHANGED tablevars
    /\ UNCHANGED standvars
    /\ UNCHANGED stationvars
    /\ UNCHANGED ventvars
    /\ UNCHANGED enclvars
    /\ UNCHANGED <<width, height, hpc, n_cols, n_rows, col, row, y0s, out, prev, calls>>

\* a call of _resolve_orientation(solid, normal_axis) that raises
OrientRaise ==
    /\ apc = "idle"
    /\ ocalls < MaxCalls
    /\ ResolveError(wall, normal_axis) # ""
    /\ prev_result' = [error |-> error, dict |-> orientation]
    /\ orientation' = [plane |-> ""]
    /\ error' = ResolveError(wall, normal_axis)
    /\ ocalls' = ocalls + 1
    /\ UNCHANGED <<argvars, apc, shell_only, pattern, infill, result, ops>>
    /\ UNCHANGED scriptvars
    /\ UNCHANGED tablevars
    /\ UNCHANGED standvars
    /\ UNCHANGED stationvars
    /\ UNCHANGED ventvars
    /\ UNCHANGED enclvars
    /\ UNCHANGED <<width, height, hpc, n_cols, n_rows, col, row, y0s, out, prev, calls>>

NextOrient ==
    \/ OrientReturn
    \/ OrientRaise

SpecOrient == InitOrient /\ [][NextOrient]_vars

-----------------------------------------------------------------------------
(* The module honeycomb over a sequence of calls.  The functions read the    *)
(* module tables where the source reads them; each call is one step.         *)

\* _resolve_orientation (lines 106-142) reading the tables a2p and pa:
\* the exception it raises ("" when it returns) and the dict it returns
ResolveWith(a2p, pa, bb, na) ==
    LET axis == ResolvedAxis(bb, na)
    IN  IF ~na.is_none /\ axis \notin DOMAIN a2p
        THEN [error |-> "ValueError", dict |-> [plane |-> ""]]
        ELSE IF axis \notin DOMAIN a2p \/ a2p[axis] \notin DOMAIN pa
        THEN [error |-> "KeyError", dict |-> [plane |-> ""]]
        ELSE LET plane == a2p[axis]
                 axis_u == pa[plane][1]
                 axis_v == pa[plane][2]
                 translation == [a \in Axes |->
                                    IF a \in {axis_u, axis_v, axis}
                                    THEN Centers2(bb)[a] ELSE 0]
             IN  [error |-> "",
                  dict |-> [plane |-> plane,
                            width |-> Lengths(bb)[axis_u],
                            height |-> Lengths(bb)[axis_v],
                            thickness |-> Lengths(bb)[axis],
                            translation |-> <<translation["X"], translation["Y"],
                                              translation["Z"]>>,
                            normal_axis |-> axis]]

\* apply_honeycomb (lines 144-174) reading the tables a2p and pa, run from
\* its first line to its return or to the exception of _resolve_orientation
ApplyWith(a2p, pa, wl, c, e, t, na) ==
    LET r == ResolveWith(a2p, pa, wl, na)
    IN  IF r.error # "" THEN [error |-> r.error, solid |-> [op |-> "none"]]
        ELSE LET o == r.dict
                 shell == [op |-> "shell", of |-> WallSolid(wl),
                           faces |-> [plus |-> o.normal_axis, minus |-> o.normal_axis],
                           thickness |-> -t, kind |-> "intersection"]
                 grid == HoneycombGrid(o.width, o.height, c, e, o.thickness, o.plane).solid
                 pat == [op |-> "translate", of |-> grid, by |-> o.translation]
                 fill == [op |-> "intersect", a |-> WallSolid(wl), b |-> pat]
             IN  [error |-> "", solid |-> [op |-> "union", a |-> shell, b |-> fill]]

\* the solids and overrides the calls are made with
CallWalls ==
    { CubeWall,
      [xmin |-> 0, xmax |-> 3, ymin |-> 0, ymax |-> 2, zmin |-> 0, zmax |-> 1],
      [xmin |-> -1, xmax |-> 1, ymin |-> -2, ymax |-> 1, zmin |-> 0, zmax |-> 3] }

CallAxes ==
    { [is_none |-> TRUE, str |-> ""], [is_none |-> FALSE, str |-> "x"],
      [is_none |-> FALSE, str |-> "Z"], [is_none |-> FALSE, str |-> "W"] }

\* no call made yet, the module just loaded
InitCalls ==
    /\ width = 0
    /\ height = 0
    /\ cell_size = 1
    /\ HexIdle
    /\ OrientIdle
    /\ EnclIdle
    /\ VentIdle
    /\ StationIdle
    /\ StandIdle
    /\ TablesIdle
    /\ ScriptIdle
    /\ AppIdle

\* a call ends: its record is added to the history.  args_after is what the
\* caller finds in the objects it passed: no function assigns to an
\* attribute or an item of an argument (line 123 rebinds the local name
\* normal_axis only).
Returns(fn, args, outcome) ==
    /\ Len(hist) < MaxCalls
    /\ hist' = Append(hist, [fn |-> fn, args |-> args, args_after |-> args,
                             outcome |-> outcome])
    /\ UNCHANGED <<hexvars, appvars, orvars, scriptvars, standvars, stationvars, ventvars, enclvars>>

\* list(_hex_centers(width, height, cell_size)), lines 54-75: reads no table
CallHexCenters ==
    /\ \E w \in 1..2, h \in 1..2 :
          Returns("_hex_centers", <<w, h, 1>>, HexCenters(w, h, 1))
    /\ UNCHANGED <<axis_to_plane, plane_axes>>

\* _honeycomb_grid(width, height, cell_size, edge_width, thickness, plane),
\* lines 77-104: reads no table
CallHoneycombGrid ==
    /\ \E e \in 1..2, plane \in {"XY", "YZ"} :
          Returns("_honeycomb_grid", <<2, 1, 1, e, 1, plane>>,
                  HoneycombGrid(2, 1, 1, e, 1, plane).solid)
    /\ UNCHANGED <<axis_to_plane, plane_axes>>

\* _resolve_orientation with the tiling plane's axes exchanged in _PLANE_AXES
\* on the way
CallResolveOrientationWriting ==
    \E bb \in CallWalls, na \in CallAxes :
        LET r == ResolveWith(axis_to_plane, plane_axes, bb, na)
        IN  /\ Returns("_resolve_orientation", <<bb, na>>, r)
            /\ plane_axes' =
                  IF r.error = ""
                  THEN [plane_axes EXCEPT ![r.dict.plane] =
                           <<plane_axes[r.dict.plane][2], plane_axes[r.dict.plane][1]>>]
                  ELSE plane_axes
            /\ UNCHANGED axis_to_plane

\* _resolve_orientation(solid, normal_axis), lines 106-142: reads
\* _AXIS_TO_PLANE (lines 124, 127) and _PLANE_AXES (line 128)
CallResolveOrientation ==
    /\ \E bb \in CallWalls, na \in CallAxes :
          Returns("_resolve_orientation", <<bb, na>>,
                  ResolveWith(axis_to_plane, plane_axes, bb, na))
    /\ UNCHANGED <<axis_to_plane, plane_axes>>

\* apply_honeycomb(wall, cell_size, edge_width, shell_thickness, normal_axis),
\* lines 144-174
CallApplyHoneycomb ==
    /\ \E wl \in CallWalls, na \in CallAxes :
          Returns("apply_honeycomb", <<wl, 1, 1, 1, na>>,
                  ApplyWith(axis_to_plane, plane_axes, wl, 1, 1, 1, na))
    /\ UNCHANGED <<axis_to_plane, plane_axes>>

NextCalls ==
    \/ CallHexCenters
    \/ CallHoneycombGrid
    \/ CallResolveOrientation
    \/ CallApplyHoneycomb

SpecCalls == InitCalls /\ [][NextCalls]_vars

-----------------------------------------------------------------------------
(* step-display-stand.py: assembly_stand and combine_parts.  Lengths are     *)
(* integers; the offsets z_offset and y_offset are held doubled, as are the  *)
(* Z coordinates derived from them.                                          *)

\* the arguments assembly_stand is called with
StandArgs ==
    [num_steps : -1..MaxSteps,
     first_step_height : -1..2,
     step_height : 1..MaxStepHeight,
     step_depth : 1..2,
     wall_thickness : {1},
     ledge_height : 0..1,
     cell_size : 1..2,
     edge_width : {1},
     shell_thickness : 0..1]

InitStand ==
    /\ width = 0
    /\ height = 0
    /\ cell_size = 1
    /\ HexIdle
    /\ OrientIdle
    /\ EnclIdle
    /\ VentIdle
    /\ StationIdle
    /\ TablesIdle
    /\ ScriptIdle
    /\ AppIdle
    /\ stand_args \in StandArgs
    /\ stand = [pc |-> "call"]
    /\ stand_steps = <<>>
    /\ stand_hcalls = <<>>
    /\ stand_error = ""

\* the support's lowest side without support_extra_height
SupportBottom2NoExtra(h, support_extra_height) == -h - h

\* generate_step (lines 57-131), its support: the polyline of lines 119-124
\* on the plane YZ with origin z = -step_height / 2 has its lowest side at
\* local y = y0 - support_extra_height, y0 = -step_height / 2 (line 74):
\* twice the global Z of that side
SupportBottom2(h, support_extra_height) == -h + 2 * (-support_extra_height) - h

\* combine_parts with the connector under the same condition as front and support
CombinePartsGated(id, flag) ==
    IF flag THEN <<[step |-> id, part |-> "front", flag |-> flag],
                   [step |-> id, part |-> "support", flag |-> flag],
                   [step |-> id, part |-> "connector", flag |-> flag]>>
    ELSE <<>>

\* combine_parts (lines 133-164), its calls of honeycomb.apply_honeycomb:
\* front and support under `if apply_honeycomb` (lines 139-149), the
\* connector always (lines 158-162)
CombineParts(id, flag) ==
    (IF flag THEN <<[step |-> id, part |-> "front", flag |-> flag],
                    [step |-> id, part |-> "support", flag |-> flag]>>
     ELSE <<>>)
    \o <<[step |-> id, part |-> "connector", flag |-> flag]>>

\* line 184: min_wall_size = shell_thickness * 2 + cell_size
MinWallSize(a) == a.shell_thickness * 2 + a.cell_size

\* line 180 without the assert
StandAssertStepsOff(n) == FALSE

\* line 180: assert num_steps > 0 fails
StandAssertSteps(n) == ~(n > 0)

\* line 180 failing: the AssertionError leaves assembly_stand
StandRejectSteps ==
    /\ stand.pc = "call"
    /\ StandAssertSteps(stand_args.num_steps)
    /\ stand_error' = "AssertionError"
    /\ stand' = [pc |-> "raised"]
    /\ UNCHANGED <<stand_args, stand_steps, stand_hcalls>>
    /\ UNCHANGED <<hexvars, appvars, orvars, scriptvars, tablevars, stationvars, ventvars, enclvars>>

\* lines 180-185: the assert passes and the offsets are set
StandStart ==
    /\ stand.pc = "call"
    /\ ~StandAssertSteps(stand_args.num_steps)
    /\ stand' = [pc |-> "first",
                 num_steps |-> stand_args.num_steps,
                 z_offset2 |-> -((stand_args.num_steps - 1) * stand_args.step_height),
                 y_offset2 |-> stand_args.num_steps * stand_args.step_depth,
                 first_step_offset |-> 0,
                 i |-> 0]
    /\ UNCHANGED <<stand_args, stand_steps, stand_hcalls, stand_error>>
    /\ UNCHANGED <<hexvars, appvars, orvars, scriptvars, tablevars, stationvars, ventvars, enclvars>>

\* lines 187-188: the first step is enabled and assert num_steps > 1 fails
StandRejectFirst ==
    /\ stand.pc = "first"
    /\ stand_args.first_step_height > 0
    /\ ~(stand.num_steps > 1)
    /\ stand_error' = "AssertionError"
    /\ stand' = [pc |-> "raised"]
    /\ UNCHANGED <<stand_args, stand_steps, stand_hcalls>>
    /\ UNCHANGED <<hexvars, appvars, orvars, scriptvars, tablevars, stationvars, ventvars, enclvars>>

\* lines 187-201: the special first step
StandFirstStep ==
    /\ stand.pc = "first"
    /\ stand_args.first_step_height > 0
    /\ stand.num_steps > 1
    /\ LET a == stand_args
           z2 == stand.z_offset2 - a.first_step_height
           y2 == stand.y_offset2 - a.step_depth
           flag == a.first_step_height > MinWallSize(a)
       IN  /\ stand_steps' = Append(stand_steps,
                  [kind |-> "first", i |-> 0, step_height |-> a.first_step_height,
                   z_offset2 |-> z2, y_offset2 |-> y2,
                   support_bottom2 |-> SupportBottom2(a.first_step_height, 0) + z2,
                   apply_honeycomb |-> flag])
           /\ stand_hcalls' = stand_hcalls \o CombineParts(Len(stand_steps) + 1, flag)
           /\ stand' = [stand EXCEPT !.pc = "loop",
                                     !.z_offset2 = z2,
                                     !.y_offset2 = y2,
                                     !.first_step_offset = a.first_step_height,
                                     !.num_steps = stand.num_steps - 1]
    /\ UNCHANGED <<stand_args, stand_error>>
    /\ UNCHANGED <<hexvars, appvars, orvars, scriptvars, tablevars, stationvars, ventvars, enclvars>>

\* line 187: the first step is disabled
StandSkipFirst ==
    /\ stand.pc = "first"
    /\ ~(stand_args.first_step_height > 0)
    /\ stand' = [stand EXCEPT !.pc = "loop"]
    /\ UNCHANGED <<stand_args, stand_steps, stand_hcalls, stand_error>>
    /\ UNCHANGED <<hexvars, appvars, orvars, scriptvars, tablevars, stationvars, ventvars, enclvars>>

\* lines 203-219: one turn of `for i in range(num_steps)`
StandLoopStep ==
    /\ stand.pc = "loop"
    /\ stand.i < stand.num_steps
    /\ LET a == stand_args
           z2 == stand.z_offset2 + 2 * a.step_height
           y2 == stand.y_offset2 - 2 * a.step_depth
           support_height == a.step_height * stand.i + stand.first_step_offset
           flag == a.step_height > MinWallSize(a)
       IN  /\ stand_steps' = Append(stand_steps,
                  [kind |-> "regular", i |-> stand.i, step_height |-> a.step_height,
                   z_offset2 |-> z2, y_offset2 |-> y2,
                   support_bottom2 |-> SupportBottom2(a.step_height, support_height) + z2,
                   apply_honeycomb |-> flag])
           /\ stand_hcalls' = stand_hcalls \o CombineParts(Len(stand_steps) + 1, flag)
           /\ stand' = [stand EXCEPT !.z_offset2 = z2, !.y_offset2 = y2, !.i = stand.i + 1]
    /\ UNCHANGED <<stand_args, stand_error>>
    /\ UNCHANGED <<hexvars, appvars, orvars, scriptvars, tablevars, stationvars, ventvars, enclvars>>

\* lines 221-240: the loop is over; the ledge, when enabled, is generated,
\* its front passed to honeycomb.apply_honeycomb, and all_steps is returned
StandLedgeReturn ==
    /\ stand.pc = "loop"
    /\ ~(stand.i < stand.num_steps)
    /\ stand_hcalls' =
          IF stand_args.ledge_height > 0
          THEN Append(stand_hcalls, [step |-> 0, part |-> "ledge_front", flag |-> TRUE])
          ELSE stand_hcalls
    /\ stand' = [stand EXCEPT
                    !.pc = "returned",
                    !.z_offset2 = IF stand_args.ledge_height > 0
                                  THEN @ + 2 * stand_args.step_height ELSE @,
                    !.y_offset2 = IF stand_args.ledge_height > 0
                                  THEN @ - 2 * stand_args.step_depth ELSE @]
    /\ UNCHANGED <<stand_args, stand_steps, stand_error>>
    /\ UNCHANGED <<hexvars, appvars, orvars, scriptvars, tablevars, stationvars, ventvars, enclvars>>

NextStand ==
    \/ StandRejectSteps
    \/ StandStart
    \/ StandRejectFirst
    \/ StandFirstStep
    \/ StandSkipFirst
    \/ StandLoopStep
    \/ StandLedgeReturn

SpecStand == InitStand /\ [][NextStand]_vars

-----------------------------------------------------------------------------
(* tampering-station.py: the configuration (lines 49-79), the derived        *)
(* dimensions (lines 90-93) and the sanity checks (lines 100-108).  The      *)
(* configuration constants are whole numbers of millimetres.                 *)

MARGIN == 10

PORTA_HOLDER_DIAMETER == 74

PORTA_HOLDER_DEPTH_Z == 75

PORTA_HANDLE_LENGTH_Y == 15

PORTA_HANDLE_DEPTH_Z == 45

PORTA_HANDLE_SCREW_DEPTH_Z == 15

UPPER_LEFT_DIAMETER == 60

UPPER_MIDDLE_LENGTH_X == 50

UPPER_MIDDLE_WIDTH_Y == 35

UPPER_RIGHT_DIAMETER == 60

LOWER_LEFT_SLOT_WIDTH_X == 3

LOWER_LEFT_SLOT_LENGTH_Y == 50

LOWER_LEFT_SLOT_GAP == 5

LOWER_LEFT_SLOT_COUNT == 3

LOWER_LEFT_HOLE_DIAMETER == 25

LOWER_RIGHT_DIAMETER == 40

INTERNAL_WALL == 5

\* the configuration as shipped
ShippedConfig ==
    [MARGIN |-> MARGIN,
     PORTA_HOLDER_DIAMETER |-> PORTA_HOLDER_DIAMETER,
     PORTA_HOLDER_DEPTH_Z |-> PORTA_HOLDER_DEPTH_Z,
     PORTA_HANDLE_LENGTH_Y |-> PORTA_HANDLE_LENGTH_Y,
     PORTA_HANDLE_DEPTH_Z |-> PORTA_HANDLE_DEPTH_Z,
     PORTA_HANDLE_SCREW_DEPTH_Z |-> PORTA_HANDLE_SCREW_DEPTH_Z,
     UPPER_LEFT_DIAMETER |-> UPPER_LEFT_DIAMETER,
     UPPER_MIDDLE_LENGTH_X |-> UPPER_MIDDLE_LENGTH_X,
     UPPER_MIDDLE_WIDTH_Y |-> UPPER_MIDDLE_WIDTH_Y,
     UPPER_RIGHT_DIAMETER |-> UPPER_RIGHT_DIAMETER,
     LOWER_LEFT_SLOT_WIDTH_X |-> LOWER_LEFT_SLOT_WIDTH_X,
     LOWER_LEFT_SLOT_LENGTH_Y |-> LOWER_LEFT_SLOT_LENGTH_Y,
     LOWER_LEFT_SLOT_GAP |-> LOWER_LEFT_SLOT_GAP,
     LOWER_LEFT_SLOT_COUNT |-> LOWER_LEFT_SLOT_COUNT,
     LOWER_LEFT_HOLE_DIAMETER |-> LOWER_LEFT_HOLE_DIAMETER,
     LOWER_RIGHT_DIAMETER |-> LOWER_RIGHT_DIAMETER,
     INTERNAL_WALL |-> INTERNAL_WALL]

\* the configurations the script is run with: the shipped one, and the
\* shipped one with some constants tweaked
StationConfigs ==
    { [ShippedConfig EXCEPT !.MARGIN = m, !.UPPER_MIDDLE_LENGTH_X = um,
                            !.LOWER_RIGHT_DIAMETER = lr,
                            !.LOWER_LEFT_SLOT_LENGTH_Y = sl,
                            !.PORTA_HANDLE_DEPTH_Z = hd] :
        m \in {MARGIN, MARGIN + 1},
        um \in {UPPER_MIDDLE_LENGTH_X, UPPER_MIDDLE_LENGTH_X + 4},
        lr \in {LOWER_RIGHT_DIAMETER, LOWER_RIGHT_DIAMETER + 7},
        sl \in {LOWER_LEFT_SLOT_LENGTH_Y, LOWER_LEFT_SLOT_LENGTH_Y + 5},
        hd \in {PORTA_HANDLE_DEPTH_Z, PORTA_HANDLE_DEPTH_Z + 15} }

InitStation ==
    /\ width = 0
    /\ height = 0
    /\ cell_size = 1
    /\ HexIdle
    /\ OrientIdle
    /\ EnclIdle
    /\ VentIdle
    /\ StandIdle
    /\ TablesIdle
    /\ ScriptIdle
    /\ AppIdle
    /\ station_cfg \in StationConfigs
    /\ station = [pc |-> "config"]
    /\ station_error = ""

\* max() of three numbers
Max3(a, b, c) == Max(a, Max(b, c))

\* line 90: LOWER_LEFT_SLOTS_WIDTH_X
LowerLeftSlotsWidthX(c) ==
    c.LOWER_LEFT_SLOT_COUNT * c.LOWER_LEFT_SLOT_WIDTH_X
        + (c.LOWER_LEFT_SLOT_COUNT - 1) * c.LOWER_LEFT_SLOT_GAP

\* LENGTH_X without the margin on the right
LengthXNoMargin(c) ==
    c.MARGIN
    + Max3(c.UPPER_LEFT_DIAMETER, LowerLeftSlotsWidthX(c) + c.MARGIN,
           c.LOWER_LEFT_HOLE_DIAMETER)
    + c.PORTA_HOLDER_DIAMETER
    + Max(c.UPPER_RIGHT_DIAMETER, c.LOWER_RIGHT_DIAMETER)

\* line 91: LENGTH_X = MARGIN + max(UPPER_LEFT_DIAMETER,
\* LOWER_LEFT_SLOTS_WIDTH_X + MARGIN, + LOWER_LEFT_HOLE_DIAMETER)
\* + PORTA_HOLDER_DIAMETER + max(UPPER_RIGHT_DIAMETER, LOWER_RIGHT_DIAMETER)
\* + MARGIN: the max has three arguments, the third with a unary plus
LengthX(c) ==
    c.MARGIN
    + Max3(c.UPPER_LEFT_DIAMETER, LowerLeftSlotsWidthX(c) + c.MARGIN,
           c.LOWER_LEFT_HOLE_DIAMETER)
    + c.PORTA_HOLDER_DIAMETER
    + Max(c.UPPER_RIGHT_DIAMETER, c.LOWER_RIGHT_DIAMETER)
    + c.MARGIN

\* line 92: WIDTH_Y
WidthY(c) ==
    c.PORTA_HANDLE_LENGTH_Y + c.PORTA_HOLDER_DIAMETER + c.MARGIN
        + c.UPPER_MIDDLE_WIDTH_Y + c.MARGIN

\* line 93: HEIGHT_Z
HeightZ(c) == c.PORTA_HOLDER_DEPTH_Z + c.INTERNAL_WALL

\* lines 100-102: the upper row fits strictly within LENGTH_X
UpperXFits(c, d) ==
    c.MARGIN + c.UPPER_LEFT_DIAMETER + c.MARGIN + c.UPPER_MIDDLE_LENGTH_X
        + c.MARGIN + c.UPPER_RIGHT_DIAMETER + c.MARGIN < d.LENGTH_X

\* lines 103-106: the lower row fits within LENGTH_X
LowerXFits(c, d) ==
    c.MARGIN + d.LOWER_LEFT_SLOTS_WIDTH_X + c.MARGIN + c.LOWER_LEFT_HOLE_DIAMETER
        + c.MARGIN + c.PORTA_HOLDER_DIAMETER + c.MARGIN + c.LOWER_RIGHT_DIAMETER
        + c.MARGIN <= d.LENGTH_X

\* line 107: the left column fits within WIDTH_Y
LeftYFits(c, d) ==
    c.MARGIN + c.UPPER_LEFT_DIAMETER + c.MARGIN + c.LOWER_LEFT_SLOT_LENGTH_Y
        + c.MARGIN <= d.WIDTH_Y

\* line 108: the handle, its screw and the internal wall stay below HEIGHT_Z
HandleZFits(c, d) ==
    c.PORTA_HANDLE_DEPTH_Z + c.PORTA_HANDLE_SCREW_DEPTH_Z + c.INTERNAL_WALL < d.HEIGHT_Z

\* lines 90-93: the derived dimensions are computed
StationDerive ==
    /\ station.pc = "config"
    /\ station' = [pc |-> "check_upper_x",
                   LOWER_LEFT_SLOTS_WIDTH_X |-> LowerLeftSlotsWidthX(station_cfg),
                   LENGTH_X |-> LengthX(station_cfg),
                   WIDTH_Y |-> WidthY(station_cfg),
                   HEIGHT_Z |-> HeightZ(station_cfg)]
    /\ UNCHANGED <<station_cfg, station_error>>
    /\ UNCHANGED <<hexvars, appvars, orvars, scriptvars, tablevars, standvars, ventvars, enclvars>>

\* an assert statement at position pos: the script goes on to position next
\* when the condition holds and ends with an AssertionError when not
StationAssert(pos, holds, next) ==
    /\ station.pc = pos
    /\ IF holds
       THEN /\ station' = [station EXCEPT !.pc = next]
            /\ UNCHANGED station_error
       ELSE /\ station' = [station EXCEPT !.pc = "raised"]
            /\ station_error' = "AssertionError"
    /\ UNCHANGED station_cfg
    /\ UNCHANGED <<hexvars, appvars, orvars, scriptvars, tablevars, standvars, ventvars, enclvars>>

\* lines 100-102
StationCheckUpperX ==
    /\ station.pc = "check_upper_x"
    /\ StationAssert("check_upper_x", UpperXFits(station_cfg, station), "check_lower_x")

\* lines 103-106
StationCheckLowerX ==
    /\ station.pc = "check_lower_x"
    /\ StationAssert("check_lower_x", LowerXFits(station_cfg, station), "check_y")

\* line 107
StationCheckY ==
    /\ station.pc = "check_y"
    /\ StationAssert("check_y", LeftYFits(station_cfg, station), "check_z")

\* line 108: the last check; the script goes on to build its models
StationCheckZ ==
    /\ station.pc = "check_z"
    /\ StationAssert("check_z", HandleZFits(station_cfg, station), "checked")

NextStation ==
    \/ StationDerive
    \/ StationCheckUpperX
    \/ StationCheckLowerX
    \/ StationCheckY
    \/ StationCheckZ

SpecStation == InitStation /\ [][NextStation]_vars

-----------------------------------------------------------------------------
(* phono-preamp-psu.py: add_vertical_wall_vents and add_diagonal_wall_vents. *)
(* area_length and spacing are integers; a slot centre y is held as the      *)
(* integer y * 2 * n, n the number of slots.                                 *)

InitVents ==
    /\ width = 0
    /\ height = 0
    /\ cell_size = 1
    /\ HexIdle
    /\ OrientIdle
    /\ EnclIdle
    /\ StationIdle
    /\ StandIdle
    /\ TablesIdle
    /\ ScriptIdle
    /\ AppIdle
    /\ vent_args \in [fn : {"add_vertical_wall_vents", "add_diagonal_wall_vents"},
                      area_length : 1..MaxArea,
                      spacing : 1..MaxSpacing]
    /\ vent = [pc |-> "call"]
    /\ vent_ys = <<>>

\* the number of slots with the quotient rounded up
VentCountCeil(area_length, spacing) == Max(1, CeilDiv(area_length, spacing))

\* lines 92 and 120: n = max(1, int(area_length // spacing))
VentCount(area_length, spacing) == Max(1, area_length \div spacing)

\* lines 93-95 and 121-122, 128: actual_spacing = area_length / n,
\* start = -area_length / 2.0 + actual_spacing / 2.0 and
\* y = start + i * actual_spacing, times 2 * n
VentCentre2n(area_length, n, i) == -(area_length * n) + area_length + i * 2 * area_length

\* add_vertical_wall_vents, lines 90-101: the list ys and the cut
VentsVertical ==
    /\ vent.pc = "call"
    /\ vent_args.fn = "add_vertical_wall_vents"
    /\ LET n == VentCount(vent_args.area_length, vent_args.spacing)
       IN  /\ vent_ys' = [i \in 1..n |-> VentCentre2n(vent_args.area_length, n, i - 1)]
           /\ vent' = [pc |-> "returned", n |-> n, i |-> n]
    /\ UNCHANGED vent_args
    /\ UNCHANGED <<hexvars, appvars, orvars, scriptvars, tablevars, standvars, stationvars, enclvars>>

\* add_diagonal_wall_vents, lines 117-126: n and the offsets
VentsDiagonalStart ==
    /\ vent.pc = "call"
    /\ vent_args.fn = "add_diagonal_wall_vents"
    /\ vent' = [pc |-> "loop", n |-> VentCount(vent_args.area_length, vent_args.spacing),
                i |-> 0]
    /\ UNCHANGED <<vent_args, vent_ys>>
    /\ UNCHANGED <<hexvars, appvars, orvars, scriptvars, tablevars, standvars, stationvars, enclvars>>

\* lines 127-136: one turn of `for i in range(n)`, a slot at y
VentsDiagonalSlot ==
    /\ vent.pc = "loop"
    /\ vent.i < vent.n
    /\ vent_ys' = Append(vent_ys, VentCentre2n(vent_args.area_length, vent.n, vent.i))
    /\ vent' = [vent EXCEPT !.i = vent.i + 1]
    /\ UNCHANGED vent_args
    /\ UNCHANGED <<hexvars, appvars, orvars, scriptvars, tablevars, standvars, stationvars, enclvars>>

\* line 138: return wall.cut(cuts)
VentsDiagonalReturn ==
    /\ vent.pc = "loop"
    /\ ~(vent.i < vent.n)
    /\ vent' = [vent EXCEPT !.pc = "returned"]
    /\ UNCHANGED <<vent_args, vent_ys>>
    /\ UNCHANGED <<hexvars, appvars, orvars, scriptvars, tablevars, standvars, stationvars, enclvars>>

NextVents ==
    \/ VentsVertical
    \/ VentsDiagonalStart
    \/ VentsDiagonalSlot
    \/ VentsDiagonalReturn

SpecVents == InitVents /\ [][NextVents]_vars

-----------------------------------------------------------------------------
(* phono-preamp-psu.py: add_aligments_assemble. A solid is the set of the    *)
(* unit cells of space it fills: cut is set difference, union set union, and *)
(* two solids share volume when they share a cell.                           *)

Cells == 1..MaxCells

InitEncl ==
    /\ width = 0
    /\ height = 0
    /\ cell_size = 1
    /\ HexIdle
    /\ OrientIdle
    /\ VentIdle
    /\ StationIdle
    /\ StandIdle
    /\ TablesIdle
    /\ ScriptIdle
    /\ AppIdle
    /\ encl_args \in [bottom : SUBSET Cells, rear : SUBSET Cells,
                      top : SUBSET Cells, front : SUBSET Cells,
                      left : SUBSET Cells, right : SUBSET Cells]
    /\ encl = [pc |-> "call"]

\* the side walls left uncut by the rear wall
LidSidesUncut(lid_left, lid_right, base_rear) == lid_left \cup lid_right

\* lines 275-278: base_bottom.cut(lid_front).cut(lid_left).cut(lid_right)
BaseBottomCut(base_bottom, lid_front, lid_left, lid_right) ==
    ((base_bottom \ lid_front) \ lid_left) \ lid_right

\* line 279: lid_top.cut(base_rear)
LidTopCut(lid_top, base_rear) == lid_top \ base_rear

\* lines 280-281: lid_left.cut(base_rear) and lid_right.cut(base_rear),
\* united as line 283 unites them
LidSidesCut(lid_left, lid_right, base_rear) ==
    (lid_left \ base_rear) \cup (lid_right \ base_rear)

\* add_aligments_assemble, lines 272-283: the pair (base, lid)
EnclAssemble ==
    /\ encl.pc = "call"
    /\ LET a == encl_args
       IN  encl' = [pc |-> "returned",
                    base |-> BaseBottomCut(a.bottom, a.front, a.left, a.right)
                                 \cup a.rear,
                    lid |-> (LidTopCut(a.top, a.rear) \cup a.front)
                                 \cup LidSidesCut(a.left, a.right, a.rear)]
    /\ UNCHANGED encl_args
    /\ UNCHANGED <<hexvars, appvars, orvars, scriptvars, tablevars, standvars, stationvars, ventvars>>

NextEncl == EnclAssemble

SpecEncl == InitEncl /\ [][NextEncl]_vars

-----------------------------------------------------------------------------
(* The scripts (__main__) and cq_utils.export_models, cq_utils.show_models.  *)
(* A string is the sequence of its characters; a path is a string.           *)

\* cq_utils.py line 52: export_dir = "exports"
ExportDir == <<"e", "x", "p", "o", "r", "t", "s">>

\* cq_utils.py lines 60 and 66: the suffixes of f"{name}.stl", f"{name}.step"
StlSuffix == <<".", "s", "t", "l">>

StepSuffix == <<".", "s", "t", "e", "p">>

\* os.path.join(a, b) on POSIX for a directory a that does not end with a
\* separator: b alone when b is absolute, a + "/" + b otherwise
PathJoin(a, b) ==
    IF b # <<>> /\ b[1] = "/" THEN b ELSE a \o <<"/">> \o b

\* the positions of the separators of a path
Slashes(path) == { i \in DOMAIN path : path[i] = "/" }

\* the directory a path lies in: "" for a bare file name, "/" just under the root
Dirname(path) ==
    IF Slashes(path) = {} THEN <<>>
    ELSE LET last == CHOOSE i \in Slashes(path) : \A j \in Slashes(path) : j <= i
         IN  IF last = 1 THEN <<"/">> ELSE SubSeq(path, 1, last - 1)

\* open(path, "w") finds the directory of path
ParentExists(path, ds) == Dirname(path) \in ds \cup {<<>>, <<"/">>}

\* cq_utils.py lines 58-68: the paths one item of kwargs is exported to
ItemPaths(name, stl, step) ==
    (IF stl THEN <<PathJoin(ExportDir, name \o StlSuffix)>> ELSE <<>>)
    \o (IF step THEN <<PathJoin(ExportDir, name \o StepSuffix)>> ELSE <<>>)

\* the names a model can have: the keys of all_models are arbitrary strings
\* (step-display-stand.py line 245 builds one with an f-string)
ModelNames ==
    { <<"a">>, <<"b">>, <<"a", "_", "b">>, <<"a", ".", "s", "t", "l">>,
      <<"/", "a">>, <<"a", "/", "b">> }

\* the dicts all_models can be: sequences of distinct names
ModelDicts ==
    { d \in UNION { [1..n -> ModelNames] : n \in 0..MaxModels } :
        \A i \in DOMAIN d : \A j \in DOMAIN d : i # j => d[i] # d[j] }

\* a script starts: nothing built, nothing exported, nothing shown
InitScript ==
    /\ width = 0
    /\ height = 0
    /\ cell_size = 1
    /\ HexIdle
    /\ OrientIdle
    /\ EnclIdle
    /\ VentIdle
    /\ StationIdle
    /\ StandIdle
    /\ TablesIdle
    /\ AppIdle
    /\ spc = "building"
    /\ to_build \in ModelDicts
    /\ models = <<>>
    /\ stl_export \in BOOLEAN
    /\ step_export \in BOOLEAN
    /\ had_dir \in BOOLEAN
    /\ dirs = IF had_dir THEN {ExportDir} ELSE {}
    /\ writes = <<>>
    /\ epc = "idle"
    /\ ei = 0
    /\ makedirs_calls = 0
    /\ export_calls = 0
    /\ show_calls = 0
    /\ shown = <<>>
    /\ serror = ""

\* the variables of export_models
exportvars == <<dirs, writes, epc, ei, makedirs_calls>>

\* cone-column.py lines 64-100, step-display-stand.py line 243: the next
\* model of the script is built
ScriptBuild ==
    /\ spc = "building"
    /\ Len(models) < Len(to_build)
    /\ models' = Append(models, to_build[Len(models) + 1])
    /\ UNCHANGED <<spc, to_build, stl_export, step_export, had_dir, exportvars,
                   export_calls, show_calls, shown, serror>>
    /\ UNCHANGED <<hexvars, appvars, orvars, tablevars, standvars, stationvars, ventvars, enclvars>>

\* the exceptions building a model can raise: a failure of the kernel, the
\* ValueError of honeycomb._resolve_orientation, a failed assert
BuildErrors == {"KernelError", "ValueError", "AssertionError"}

\* building the next model raises, the exception is caught and the script
\* goes on to export the models built so far
ScriptBuildFailsCaught ==
    /\ spc = "building"
    /\ Len(models) < Len(to_build)
    /\ serror' \in BuildErrors
    /\ spc' = "exporting"
    /\ epc' = "entry"
    /\ export_calls' = export_calls + 1
    /\ UNCHANGED <<to_build, models, stl_export, step_export, had_dir, dirs, writes,
                   ei, makedirs_calls, show_calls, shown>>
    /\ UNCHANGED <<hexvars, appvars, orvars, tablevars, standvars, stationvars, ventvars, enclvars>>

\* the same lines: building the next model raises (a kernel failure, an
\* invalid axis, an assert of the builder); __main__ has no try statement
\* and the script ends
ScriptBuildFails ==
    /\ spc = "building"
    /\ Len(models) < Len(to_build)
    /\ spc' = "crashed"
    /\ serror' \in BuildErrors
    /\ UNCHANGED <<to_build, models, stl_export, step_export, had_dir, exportvars,
                   export_calls, show_calls, shown>>
    /\ UNCHANGED <<hexvars, appvars, orvars, tablevars, standvars, stationvars, ventvars, enclvars>>

\* the export call made before the last model is built
ScriptExportCallEarly ==
    /\ spc = "building"
    /\ spc' = "exporting"
    /\ epc' = "entry"
    /\ export_calls' = export_calls + 1
    /\ UNCHANGED <<to_build, models, stl_export, step_export, had_dir, dirs, writes,
                   ei, makedirs_calls, show_calls, shown, serror>>
    /\ UNCHANGED <<hexvars, appvars, orvars, tablevars, standvars, stationvars, ventvars, enclvars>>

\* cone-column.py line 105, step-display-stand.py line 248:
\* cq_utils.export_models(DO_STL_EXPORT, DO_STEP_EXPORT, **all_models)
ScriptExportCall ==
    /\ spc = "building"
    /\ models = to_build
    /\ spc' = "exporting"
    /\ epc' = "entry"
    /\ export_calls' = export_calls + 1
    /\ UNCHANGED <<to_build, models, stl_export, step_export, had_dir, dirs, writes,
                   ei, makedirs_calls, show_calls, shown, serror>>
    /\ UNCHANGED <<hexvars, appvars, orvars, tablevars, standvars, stationvars, ventvars, enclvars>>

\* cq_utils.py line 49 with the directory made before the test of the flags
ExportReturnEarlyAfterDir ==
    /\ epc = "entry"
    /\ ~(stl_export \/ step_export)
    /\ dirs' = dirs \cup {ExportDir}
    /\ makedirs_calls' = IF ExportDir \in dirs THEN makedirs_calls ELSE makedirs_calls + 1
    /\ epc' = "returned"
    /\ UNCHANGED <<spc, to_build, models, stl_export, step_export, had_dir, writes,
                   ei, export_calls, show_calls, shown, serror>>
    /\ UNCHANGED <<hexvars, appvars, orvars, tablevars, standvars, stationvars, ventvars, enclvars>>

\* cq_utils.py line 49: if not (stl_export or step_export): return
ExportReturnEarly ==
    /\ epc = "entry"
    /\ ~(stl_export \/ step_export)
    /\ epc' = "returned"
    /\ UNCHANGED <<spc, to_build, models, stl_export, step_export, had_dir, dirs,
                   writes, ei, makedirs_calls, export_calls, show_calls, shown, serror>>
    /\ UNCHANGED <<hexvars, appvars, orvars, tablevars, standvars, stationvars, ventvars, enclvars>>

\* cq_utils.py lines 52-54: the directory is made unless it exists
ExportMakeDir ==
    /\ epc = "entry"
    /\ stl_export \/ step_export
    /\ dirs' = dirs \cup {ExportDir}
    /\ makedirs_calls' = IF ExportDir \in dirs THEN makedirs_calls ELSE makedirs_calls + 1
    /\ ei' = 1
    /\ epc' = "loop"
    /\ UNCHANGED <<spc, to_build, models, stl_export, step_export, had_dir, writes,
                   export_calls, show_calls, shown, serror>>
    /\ UNCHANGED <<hexvars, appvars, orvars, tablevars, standvars, stationvars, ventvars, enclvars>>

\* the longest prefix of a list of paths whose directories all exist
RECURSIVE Writable(_, _)
Writable(paths, ds) ==
    IF paths = <<>> \/ ~ParentExists(Head(paths), ds) THEN <<>>
    ELSE <<Head(paths)>> \o Writable(Tail(paths), ds)

\* cq_utils.py lines 57-68: one turn of the loop.  An export into a directory
\* that does not exist raises; export_models has no try statement, nor has
\* the script, so the exception ends both.
ExportItem ==
    /\ epc = "loop"
    /\ ei <= Len(models)
    /\ LET paths == ItemPaths(models[ei], stl_export, step_export)
           done  == Writable(paths, dirs)
       IN  /\ writes' = writes \o done
           /\ IF done = paths
              THEN /\ ei' = ei + 1
                   /\ UNCHANGED <<epc, spc, serror>>
              ELSE /\ epc' = "raised"
                   /\ spc' = "crashed"
                   /\ serror' = "FileNotFoundError"
                   /\ UNCHANGED ei
    /\ UNCHANGED <<to_build, models, stl_export, step_export, had_dir, dirs,
                   makedirs_calls, export_calls, show_calls, shown>>
    /\ UNCHANGED <<hexvars, appvars, orvars, tablevars, standvars, stationvars, ventvars, enclvars>>

\* cq_utils.py line 57: kwargs.items() is exhausted and export_models returns
ExportReturn ==
    /\ epc = "loop"
    /\ ei > Len(models)
    /\ epc' = "returned"
    /\ UNCHANGED <<spc, to_build, models, stl_export, step_export, had_dir, dirs,
                   writes, ei, makedirs_calls, export_calls, show_calls, shown, serror>>
    /\ UNCHANGED <<hexvars, appvars, orvars, tablevars, standvars, stationvars, ventvars, enclvars>>

\* cone-column.py line 108, step-display-stand.py line 251:
\* cq_utils.show_models(**all_models) (cq_utils.py lines 40-44), and the
\* script ends
ScriptShowCall ==
    /\ spc = "exporting"
    /\ epc = "returned"
    /\ show_calls' = show_calls + 1
    /\ shown' = models
    /\ spc' = "done"
    /\ UNCHANGED <<to_build, models, stl_export, step_export, had_dir, exportvars,
                   export_calls, serror>>
    /\ UNCHANGED <<hexvars, appvars, orvars, tablevars, standvars, stationvars, ventvars, enclvars>>

NextScript ==
    \/ ScriptBuild
    \/ ScriptBuildFails
    \/ ScriptExportCall
    \/ ExportReturnEarly
    \/ ExportMakeDir
    \/ ExportItem
    \/ ExportReturn
    \/ ScriptShowCall

SpecScript == InitScript /\ [][NextScript]_vars

\* the interpreter runs the script's statements one after the other until
\* the script ends
SpecScriptFair == InitScript /\ [][NextScript]_vars /\ WF_vars(NextScript)


-----------------------------------------------------------------------------
(* Properties of _hex_centers *)

\* the list the stepwise run of the generator leaves is the list that
\* _honeycomb_grid takes from it in one piece (HexCenters)
HexListAgrees ==
    hpc = "done" => out = HexCenters(width, height, cell_size)

\* the generator has run to its end on a rectangle of positive width and height
HexDonePositive == hpc = "done" /\ width > 0 /\ height > 0

\* the point (p / (2*SampleDen), q / (2*SampleDen)) lies within distance c of
\* the centre ctr = <<x4, ys>>:  (px - x)^2 + (py - y)^2 <= c^2, times
\* (4*SampleDen)^2, with the sqrt(3) terms collected on the right
Within(p, q, ctr, c) ==
    LET D == SampleDen
        A == (2 * p - D * ctr[1]) * (2 * p - D * ctr[1]) + 4 * q * q
             + 12 * D * D * ctr[2] * ctr[2] - 16 * D * D * c * c
        B == 8 * q * D * ctr[2]
    IN  LeqSqrt3(A, B)

\* C1: full coverage. For positive width, height and cell_size every sampled
\* point of the rectangle [-width/2, width/2] x [-height/2, height/2] (the
\* points with coordinates k / (2*SampleDen), the edges and corners included)
\* lies within distance cell_size of at least one centre yielded.
C1_FullCoverage ==
    HexDonePositive =>
        \A p \in (-(width * SampleDen))..(width * SampleDen) :
            \A q \in (-(height * SampleDen))..(height * SampleDen) :
                \E i \in DOMAIN out : Within(p, q, out[i], cell_size)

\* a run on a positive rectangle whose corner is covered by no centre that
\* lies inside the rectangle: the cells beyond the edge do the covering
C1_Witness ==
    /\ HexDonePositive
    /\ Len(out) >= 9
    /\ \A i \in DOMAIN out :
          (Abs(out[i][1]) <= 2 * width /\ 3 * out[i][2] * out[i][2] <= height * height)
              => ~Within(width * SampleDen, height * SampleDen, out[i], cell_size)

\* C2: lattice extent. For positive width, height and cell_size the centres
\* reach at least one cell beyond every edge: min x <= -width/2 - cell_size,
\* max x >= width/2 + cell_size, min y <= -height/2 - cell_size and
\* max y >= height/2 + cell_size.
C2_LatticeExtent ==
    HexDonePositive =>
        /\ \E i \in DOMAIN out : out[i][1] <= -(2 * width) - 4 * cell_size
        /\ \E i \in DOMAIN out : out[i][1] >= 2 * width + 4 * cell_size
        /\ \E i \in DOMAIN out : LeqSqrt3(height + 2 * cell_size, -out[i][2])
        /\ \E i \in DOMAIN out : LeqSqrt3(height + 2 * cell_size, out[i][2])

\* a finished run on the largest rectangle of the model
C2_Witness ==
    /\ HexDonePositive
    /\ width = MaxDim
    /\ height = MaxDim
    /\ \E i \in DOMAIN out : out[i][1] > 2 * width

\* C3: order and pitch. The centres come column by column, the rows of one
\* column in increasing order; adjacent rows of a column differ by
\* sqrt(3) * cell_size in y and not in x; adjacent columns differ by
\* 1.5 * cell_size in x; an odd column lies half the vertical pitch above the
\* even column before it (and the even column after it half a pitch below).
C3_ColumnMajorPitch ==
    (hpc \in {"col_head", "row_loop", "done"}) =>
        \A i \in DOMAIN out :
            /\ (i + 1 \in DOMAIN out /\ i % n_rows # 0) =>
                  /\ out[i + 1][1] = out[i][1]
                  /\ out[i + 1][2] - out[i][2] = 2 * cell_size
            /\ (i + n_rows \in DOMAIN out) =>
                  /\ out[i + n_rows][1] - out[i][1] = 6 * cell_size
                  /\ out[i + n_rows][2] - out[i][2] =
                        (IF ((i - 1) \div n_rows) % 2 = 0 THEN cell_size ELSE -cell_size)
            /\ (i = 1) => out[i][2] = -((n_rows - 1) * cell_size)

\* a finished run with at least three columns and two rows
C3_Witness ==
    /\ hpc = "done"
    /\ n_cols >= 3
    /\ n_rows >= 2
    /\ Len(out) = n_cols * n_rows

\* what C4 says of a finished run
HexDoneFinite ==
    /\ n_cols >= 1
    /\ n_rows >= 1
    /\ Len(out) = n_cols * n_rows
    /\ out # <<>>
    /\ \A i, j \in DOMAIN out : i # j => out[i] # out[j]
    /\ (calls >= 2 => out = prev)

\* C4: for any width and height (zero and negative ones that make the span
\* non-positive included) and any positive cell_size the generator terminates
\* and has yielded exactly n_cols * n_rows pairwise distinct centres, with
\* n_cols >= 1 and n_rows >= 1, so never none; a second call with the same
\* arguments yields the same sequence.
C4_FiniteNonEmpty ==
    /\ (hpc # "done") ~> (hpc = "done")
    /\ [](hpc = "done" => HexDoneFinite)

\* a second finished call on a rectangle whose spans are both non-positive
C4_Witness ==
    /\ hpc = "done"
    /\ calls = 2
    /\ SpanX(width, cell_size) <= 0
    /\ SpanY(height, cell_size) <= 0
    /\ CeilDiv(2 * SpanX(width, cell_size), 3 * cell_size) + 1 <= 0
    /\ Len(out) = 1
    /\ out = prev

-----------------------------------------------------------------------------
(* Properties of _honeycomb_grid, _resolve_orientation and apply_honeycomb *)

\* apply_honeycomb has built its pattern
PatternBuilt == apc \in {"patterned", "translated", "intersected", "returned"}

\* _resolve_orientation has returned to apply_honeycomb
OrientationResolved ==
    apc \in {"resolved", "shelled", "patterned", "translated", "intersected", "returned"}

\* the solid _honeycomb_grid returned, before its translation
GridSolid == IF pattern.op = "translate" THEN pattern.of ELSE pattern

\* the outer hexagon prisms of that solid
OuterPrisms == IF GridSolid.op = "cut" THEN GridSolid.a ELSE GridSolid

\* the distinct x coordinates of the lattice: its columns
LatticeColumns == {OuterPrisms.centers[i][1] : i \in DOMAIN OuterPrisms.centers}

\* the extent of the wall's bounding box along an axis
Extent(a) ==
    CASE a = "X" -> wall.xmax - wall.xmin
      [] a = "Y" -> wall.ymax - wall.ymin
      [] a = "Z" -> wall.zmax - wall.zmin

\* the wall of the boundary scenario: bounding box 100 x 60 x 5
ScenarioWall == Extent("X") = 100 /\ Extent("Y") = 60 /\ Extent("Z") = 5

\* C5: the lattice built for a rectangle of width w and cell size c has at
\* least ceil((w + 2*c) / (1.5*c)) + 1 columns; for cell_size = 20 and a wall
\* of bounding box 100 x 60 x 5 the lattice of apply_honeycomb has at least 6.
C5_ColumnCount ==
    PatternBuilt =>
        /\ Cardinality(LatticeColumns) >=
              CeilDiv(2 * (orientation.width + 2 * cell_size), 3 * cell_size) + 1
        /\ (ScenarioWall /\ cell_size = 20) => Cardinality(LatticeColumns) >= 6

\* apply_honeycomb has returned on the scenario's wall, with six columns
C5_Witness ==
    /\ apc = "returned"
    /\ ScenarioWall
    /\ cell_size = 20
    /\ orientation.width = 100
    /\ Cardinality(LatticeColumns) = 6

\* C6: the inner hexagon's radius is max(cell_size - edge_width/2, 0) (its
\* diameter 2*cell_size - edge_width when that is positive); for every
\* edge_width >= 2 * cell_size it is 0, no inner cut is performed and the
\* pattern is exactly the outer hexagon prisms; no error is raised.
C6_InnerRadiusClamp ==
    PatternBuilt =>
        IF edge_width >= 2 * cell_size
        THEN /\ GridSolid.op = "prisms"
             /\ GridSolid.diameter = 2 * cell_size
             /\ GridSolid.depth = orientation.thickness
             /\ \A i \in DOMAIN ops : ops[i] # "cut"
             /\ Len(SelectSeq(ops, LAMBDA o : o = "extrude")) = 1
             /\ error = ""
        ELSE /\ GridSolid.op = "cut"
             /\ GridSolid.a.diameter = 2 * cell_size
             /\ GridSolid.b.diameter = 2 * cell_size - edge_width

\* a pattern built with an edge_width above 2 * cell_size
C6_Witness ==
    /\ apc = "returned"
    /\ edge_width > 2 * cell_size
    /\ GridSolid.op = "prisms"
    /\ Len(GridSolid.centers) >= 9

\* C7 as stated: with edge_width = 0 no inner cut is applied and the pattern
\* is the full outer hexagon prisms.
C7_ZeroEdgeNoCut ==
    (PatternBuilt /\ edge_width = 0) =>
        /\ GridSolid.op = "prisms"
        /\ \A i \in DOMAIN ops : ops[i] # "cut"

\* C7, amended: with edge_width = 0 the inner radius equals cell_size, which
\* is positive, so the inner cut is applied, with inner hexagon prisms
\* identical to the outer ones; the pattern is outer.cut(inner).
C7_ZeroEdgeCutsAll ==
    (PatternBuilt /\ edge_width = 0) =>
        /\ GridSolid.op = "cut"
        /\ GridSolid.b = GridSolid.a
        /\ GridSolid.a.diameter = 2 * cell_size
        /\ \E i \in DOMAIN ops : ops[i] = "cut"

\* a pattern built with edge_width = 0
C7_Witness ==
    /\ apc = "returned"
    /\ edge_width = 0
    /\ GridSolid.op = "cut"
    /\ ops = <<"shell", "extrude", "extrude", "cut", "translate", "intersect", "union">>

\* C8: the resolved normal axis is the caller's axis whenever the override
\* names X, Y or Z, shortest or not; without an override it is an axis of
\* minimal bounding-box extent; for a bounding box 100 x 60 x 5 and no
\* override it is Z, with thickness 5.
C8_NormalAxisChoice ==
    OrientationResolved =>
        /\ (~normal_axis.is_none /\ normal_axis.str \in {"X", "Y", "Z"}) =>
              orientation.normal_axis = normal_axis.str
        /\ normal_axis.is_none =>
              \A a \in {"X", "Y", "Z"} : Extent(orientation.normal_axis) <= Extent(a)
        /\ (normal_axis.is_none /\ ScenarioWall) =>
              (orientation.normal_axis = "Z" /\ orientation.thickness = 5)

\* an override that names an axis longer than both others
C8_Witness ==
    /\ apc = "returned"
    /\ ~normal_axis.is_none
    /\ normal_axis.str = "Y"
    /\ orientation.normal_axis = "Y"
    /\ Extent("Y") > Extent("X")
    /\ Extent("Y") > Extent("Z")

\* the override names none of the three axes
InvalidOverride ==
    ~normal_axis.is_none /\ normal_axis.str \notin {"X", "Y", "Z", "x", "y", "z"}

\* C9: with an override that names none of X, Y, Z apply_honeycomb ends with
\* a ValueError at once: no shell, pattern, intersection or union operation
\* is performed before it, nothing catches it and no solid is returned.
C9_InvalidAxisRaises ==
    InvalidOverride =>
        /\ apc \in {"call", "raised"}
        /\ (apc = "call" => ENABLED ApplyRaise /\ ~ENABLED ApplyResolve)
        /\ (apc = "raised" => error = "ValueError")
        /\ ops = <<>>
        /\ shell_only = [op |-> "none"]
        /\ pattern = [op |-> "none"]
        /\ infill = [op |-> "none"]
        /\ result = [op |-> "none"]

\* the ValueError has left apply_honeycomb
C9_Witness ==
    /\ apc = "raised"
    /\ error = "ValueError"
    /\ normal_axis.str = "W"
    /\ ops = <<>>

\* the principal plane perpendicular to an axis, as its two axes in order
PerpendicularPlane(a) ==
    CASE a = "X" -> [name |-> "YZ", u |-> "Y", v |-> "Z"]
      [] a = "Y" -> [name |-> "XZ", u |-> "X", v |-> "Z"]
      [] a = "Z" -> [name |-> "XY", u |-> "X", v |-> "Y"]

\* C10: for every resolved normal axis N the plane returned is the principal
\* plane perpendicular to N (X->YZ, Y->XZ, Z->XY), thickness is the extent
\* along N, width and height are the extents along the first and the second
\* axis of the plane, and N is not one of the plane's axes.
C10_PlaneAndDimensions ==
    OrientationResolved =>
        LET N == orientation.normal_axis
            P == PerpendicularPlane(N)
        IN  /\ N \in {"X", "Y", "Z"}
            /\ orientation.plane = P.name
            /\ orientation.thickness = Extent(N)
            /\ orientation.width = Extent(P.u)
            /\ orientation.height = Extent(P.v)
            /\ N # P.u /\ N # P.v

\* X is resolved on a wall whose three extents differ
C10_Witness ==
    /\ apc = "returned"
    /\ orientation.normal_axis = "X"
    /\ orientation.plane = "YZ"
    /\ Extent("X") # Extent("Y")
    /\ Extent("Y") # Extent("Z")
    /\ Extent("X") # Extent("Z")
    /\ orientation.width = Extent("Y")
    /\ orientation.height = Extent("Z")

-----------------------------------------------------------------------------
(* Properties of the translation and of the order of apply_honeycomb *)

\* the lowest and the highest coordinate of the wall's bounding box on an axis
BoxMin(a) ==
    CASE a = "X" -> wall.xmin
      [] a = "Y" -> wall.ymin
      [] a = "Z" -> wall.zmin

BoxMax(a) ==
    CASE a = "X" -> wall.xmax
      [] a = "Y" -> wall.ymax
      [] a = "Z" -> wall.zmax

\* the position of an axis in a translation tuple
AxisIndex(a) ==
    CASE a = "X" -> 1
      [] a = "Y" -> 2
      [] a = "Z" -> 3

\* C11: for every wall bounding box, centred on the origin or not, and every
\* resolved normal axis the translation is the centre of the bounding box on
\* all three axes (held doubled: min + max); the pattern, built about the
\* origin with total depth equal to the wall's thickness, spans after its
\* translation exactly [min, max] of the bounding box along the normal axis,
\* and its origin lies on the centre of the bounding box in the tiling plane.
C11_TranslationIsCentre ==
    /\ OrientationResolved =>
          \A a \in {"X", "Y", "Z"} :
              orientation.translation[AxisIndex(a)] = BoxMin(a) + BoxMax(a)
    /\ apc \in {"translated", "intersected", "returned"} =>
          LET N == orientation.normal_axis
              P == PerpendicularPlane(N)
              depth == OuterPrisms.depth
              by == pattern.by
          IN  /\ pattern.op = "translate"
              /\ OuterPrisms.plane = P.name
              \* along the normal: [-depth/2, depth/2] moved by by/2
              /\ by[AxisIndex(N)] - depth = 2 * BoxMin(N)
              /\ by[AxisIndex(N)] + depth = 2 * BoxMax(N)
              \* in the plane: the origin moved by by/2
              /\ by[AxisIndex(P.u)] = BoxMin(P.u) + BoxMax(P.u)
              /\ by[AxisIndex(P.v)] = BoxMin(P.v) + BoxMax(P.v)

\* a wall off the origin on all three axes, its pattern translated
C11_Witness ==
    /\ apc = "returned"
    /\ pattern.op = "translate"
    /\ \A a \in {"X", "Y", "Z"} : BoxMin(a) + BoxMax(a) # 0
    /\ wall.xmin # wall.zmin
    /\ pattern.by = <<wall.xmin + wall.xmax, wall.ymin + wall.ymax, wall.zmin + wall.zmax>>

FullRunOps ==
    <<"shell">>
    \o (IF edge_width < 2 * cell_size THEN <<"extrude", "extrude", "cut">>
        ELSE <<"extrude">>)
    \o <<"translate", "intersect", "union">>

\* the number of geometry operations done when apply_honeycomb is at a position
OpsDoneAt(pos) ==
    CASE pos = "call" -> 0
      [] pos = "resolved" -> 0
      [] pos = "shelled" -> 1
      [] pos = "patterned" -> Len(FullRunOps) - 3
      [] pos = "translated" -> Len(FullRunOps) - 2
      [] pos = "intersected" -> Len(FullRunOps) - 1
      [] pos = "returned" -> Len(FullRunOps)

\* C13: apply_honeycomb returns shell UNION (wall INTERSECT pattern). Its
\* steps run in the order resolve orientation, shell of the wall, pattern,
\* translation of the pattern, intersection of the ORIGINAL wall (not of the
\* shell) with the translated pattern, union of the shell with that
\* intersection, and the solid returned is that union.
C13_ShellUnionFill ==
    /\ apc \in {"call", "resolved", "shelled", "patterned", "translated",
                "intersected", "returned"} =>
          ops = SubSeq(FullRunOps, 1, OpsDoneAt(apc))
    /\ (apc = "call" \/ error \in {"ValueError", "KeyError"}) => ops = <<>>
    /\ apc \in {"intersected", "returned"} =>
          /\ infill = [op |-> "intersect", a |-> WallSolid(wall), b |-> pattern]
          /\ infill.a # shell_only
          /\ pattern.op = "translate"
          /\ pattern.of.op \in {"prisms", "cut"}
          /\ shell_only.op = "shell"
          /\ shell_only.of = WallSolid(wall)
    /\ apc = "returned" => result = [op |-> "union", a |-> shell_only, b |-> infill]
    /\ apc # "returned" => result = [op |-> "none"]

\* a complete run with the inner cut: seven geometry operations
C13_Witness ==
    /\ apc = "returned"
    /\ ops = <<"shell", "extrude", "extrude", "cut", "translate", "intersect", "union">>
    /\ result.op = "union"
    /\ result.a.op = "shell"
    /\ result.b.op = "intersect"
    /\ result.b.a.op = "wall"
    /\ result.b.b.op = "translate"

-----------------------------------------------------------------------------
(* Properties of the solid returned by apply_honeycomb *)

\* the axes of the tiling plane of the run
TilingAxes ==
    <<PerpendicularPlane(orientation.normal_axis).u,
      PerpendicularPlane(orientation.normal_axis).v>>

\* the sampled points of the tiling plane: the wall's bounding box and a
\* margin of one unit around it
SampleP ==
    (2 * FillDen * (BoxMin(TilingAxes[1]) - 1))..(2 * FillDen * (BoxMax(TilingAxes[1]) + 1))

SampleQ ==
    (2 * FillDen * (BoxMin(TilingAxes[2]) - 1))..(2 * FillDen * (BoxMax(TilingAxes[2]) + 1))

\* the point lies in the original wall
InWall(p, q) ==
    /\ 2 * FillDen * BoxMin(TilingAxes[1]) <= p
    /\ p <= 2 * FillDen * BoxMax(TilingAxes[1])
    /\ 2 * FillDen * BoxMin(TilingAxes[2]) <= q
    /\ q <= 2 * FillDen * BoxMax(TilingAxes[2])

\* C14: the solid returned by apply_honeycomb is contained in the original
\* wall (the shell being inward, shell_thickness > 0): no sampled point of
\* the output, among the points of the wall's bounding box and of a margin
\* around it, lies outside the wall.
C14_OutputInsideWall ==
    apc = "returned" =>
        \A p \in SampleP : \A q \in SampleQ :
            InWall(p, q) \/ ~Member(p, q, result, TilingAxes)

\* a run whose pattern has material outside the wall that the output has not,
\* and whose output has material of the infill where the shell has none
C14_Witness ==
    /\ apc = "returned"
    /\ \E p \in SampleP : \E q \in SampleQ :
          /\ ~InWall(p, q)
          /\ Member(p, q, pattern, TilingAxes)
          /\ ~Member(p, q, result, TilingAxes)
    /\ \E p \in SampleP : \E q \in SampleQ :
          /\ Member(p, q, infill, TilingAxes)
          /\ ~Member(p, q, shell_only, TilingAxes)

\* the pattern of the run has holes: the rings are not solid hexagons
PatternHasHoles == pattern.op = "translate" /\ pattern.of.op = "cut"

\* the shell leaves some of the wall to the infill
ShellLeavesInterior ==
    /\ 2 * shell_thickness < Extent(TilingAxes[1])
    /\ 2 * shell_thickness < Extent(TilingAxes[2])

\* the point lies in the wall, farther than shell_thickness from its sides
InFillRegion(p, q) ==
    /\ p - 2 * FillDen * BoxMin(TilingAxes[1]) > 2 * FillDen * shell_thickness
    /\ 2 * FillDen * BoxMax(TilingAxes[1]) - p > 2 * FillDen * shell_thickness
    /\ q - 2 * FillDen * BoxMin(TilingAxes[2]) > 2 * FillDen * shell_thickness
    /\ 2 * FillDen * BoxMax(TilingAxes[2]) - q > 2 * FillDen * shell_thickness

\* the point lies strictly inside a hole of the translated pattern
InHole(p, q) ==
    /\ PatternHasHoles
    /\ \E i \in DOMAIN pattern.of.b.centers :
          InsideHexagon(p - FillDen * pattern.by[AxisIndex(TilingAxes[1])],
                        q - FillDen * pattern.by[AxisIndex(TilingAxes[2])],
                        pattern.of.b.centers[i], pattern.of.b.diameter)

\* hole i of the translated pattern, a hexagon of diameter d about
\* (x4/4 + tu/2, ys*sqrt(3)/2 + tv/2), reaches into the fill region: its
\* bounding box, of half-sides d/2 and d*sqrt(3)/4, meets the open rectangle
\* left by the shell
HoleReachesFill(i) ==
    LET ctr == pattern.of.b.centers[i]
        d   == pattern.of.b.diameter
        tu  == pattern.by[AxisIndex(TilingAxes[1])]
        tv  == pattern.by[AxisIndex(TilingAxes[2])]
        ulo == 4 * (BoxMin(TilingAxes[1]) + shell_thickness)
        uhi == 4 * (BoxMax(TilingAxes[1]) - shell_thickness)
        vlo == 4 * (BoxMin(TilingAxes[2]) + shell_thickness)
        vhi == 4 * (BoxMax(TilingAxes[2]) - shell_thickness)
    IN  /\ ctr[1] + 2 * tu - 2 * d < uhi
        /\ ctr[1] + 2 * tu + 2 * d > ulo
        /\ ~LeqSqrt3(vhi - 2 * tv, 2 * ctr[2] - d)
        /\ ~LeqSqrt3(-(vlo - 2 * tv), -(2 * ctr[2] + d))

\* every sampled point of the wall is in the output, and no hole of the
\* pattern reaches into the fill region: the output is the whole wall
OutputIsWall ==
    /\ \A p \in SampleP : \A q \in SampleQ :
          InWall(p, q) => Member(p, q, result, TilingAxes)
    /\ PatternHasHoles =>
          \A i \in DOMAIN pattern.of.b.centers : ~HoleReachesFill(i)

\* C15 as stated: the output equals the wall only when the pattern cuts no
\* holes; whenever the pattern has holes (and the shell leaves an interior
\* to fill) the output is strictly smaller than the wall.
C15_HolesMakeSmaller ==
    (apc = "returned" /\ PatternHasHoles /\ ShellLeavesInterior) => ~OutputIsWall

\* C15, amended: the output never exceeds the wall; it is the whole wall when
\* the pattern cuts no holes; and it is strictly smaller whenever a hole
\* reaches into the region the shell leaves to the infill: every sampled
\* point strictly inside a hole and in that region is missing from the output.
C15_VolumeBound ==
    apc = "returned" =>
        /\ \A p \in SampleP : \A q \in SampleQ :
              Member(p, q, result, TilingAxes) => InWall(p, q)
        /\ ~PatternHasHoles => OutputIsWall
        /\ \A p \in SampleP : \A q \in SampleQ :
              (InFillRegion(p, q) /\ InHole(p, q)) =>
                  /\ ~Member(p, q, result, TilingAxes)
                  /\ \E i \in DOMAIN pattern.of.b.centers : HoleReachesFill(i)

\* a run whose pattern has a hole over a sampled point of the fill region
C15_Witness ==
    /\ apc = "returned"
    /\ ShellLeavesInterior
    /\ \E p \in SampleP : \E q \in SampleQ : InFillRegion(p, q) /\ InHole(p, q)

\* a run whose rings are solid hexagons and whose output is the whole wall
C15_WitnessNoHoles ==
    /\ apc = "returned"
    /\ ~PatternHasHoles
    /\ ShellLeavesInterior
    /\ OutputIsWall

-----------------------------------------------------------------------------
(* Properties of apply_honeycomb's failures *)

\* the number of times an operation stands in a sequence of operations
RECURSIVE Count(_, _)
Count(o, seq) ==
    IF seq = <<>> THEN 0
    ELSE (IF Head(seq) = o THEN 1 ELSE 0) + Count(o, Tail(seq))

\* the shell operation has been performed
Shelled == apc \in {"shelled", "patterned", "translated", "intersected", "returned"}

\* C16: apply_honeycomb does not guard shell_thickness. Whatever its value,
\* and so too when it is at least half the wall's thickness along the normal
\* axis, the function raises no error of its own on its account (its only
\* own errors are those of an invalid override), a resolved run always goes
\* on to the shell operation, and that operation receives -shell_thickness,
\* the value unchanged and unclamped.
C16_ShellThicknessUnguarded ==
    /\ error \in {"ValueError", "KeyError"} => InvalidOverride
    /\ apc = "resolved" => ENABLED ApplyShell
    /\ (Shelled \/ (apc = "raised" /\ Len(ops) > 1)) =>
          /\ shell_only.op = "shell"
          /\ shell_only.thickness = -shell_thickness
          /\ shell_only.of = WallSolid(wall)

\* a shell as thick as the whole wall has been handed to the kernel and the
\* run went on to its end
C16_Witness ==
    /\ apc = "returned"
    /\ shell_thickness >= orientation.thickness
    /\ shell_only.thickness = -shell_thickness
    /\ error = ""

\* C18: a failure of the kernel in a geometry operation (shell, extrude, cut,
\* intersect, union) is neither caught nor retried: the run ends at once with
\* the error, no step follows it, no operation was attempted more than once
\* (the two extrusions of _honeycomb_grid are two operations), the solid
\* returned is never set, and a run that returns a solid had no failure.
C18_KernelFailureFatal ==
    /\ error = "KernelError" =>
          /\ apc = "raised"
          /\ result = [op |-> "none"]
          /\ ~ENABLED Next
          /\ ops # <<>>
          /\ \E n \in 1..Len(FullRunOps) :
                /\ ops = SubSeq(FullRunOps, 1, n)
                /\ FullRunOps[n] \in {"shell", "extrude", "cut", "intersect", "union"}
    /\ \A o \in {"shell", "cut", "translate", "intersect", "union"} : Count(o, ops) <= 1
    /\ Count("extrude", ops) <= 2
    /\ apc = "returned" => error = ""
    /\ apc = "raised" => result = [op |-> "none"]

\* the union, the last operation, has failed after every other succeeded
C18_Witness ==
    /\ error = "KernelError"
    /\ apc = "raised"
    /\ ops = FullRunOps
    /\ Count("extrude", ops) = 2
    /\ infill.op = "intersect"
    /\ result = [op |-> "none"]

-----------------------------------------------------------------------------
(* Properties of the scripts and of export_models *)

\* the script has ended, by its last statement or by an exception
ScriptEnded == spc \in {"done", "crashed"}

\* C17, its order: export_models and show_models are called at most once
\* each; export_models is called only when every model of the script is
\* built, show_models only after export_models was called and has returned;
\* nothing is written or shown before every model is built; and a script that
\* reaches its end has called each exactly once.
PipelineOrder ==
    /\ export_calls <= 1
    /\ show_calls <= 1
    /\ export_calls = 1 => models = to_build
    /\ show_calls = 1 => export_calls = 1 /\ epc = "returned" /\ spc = "done"
    /\ (writes # <<>> \/ shown # <<>> \/ makedirs_calls > 0) => models = to_build
    /\ spc = "done" => export_calls = 1 /\ show_calls = 1 /\ shown = to_build
    /\ spc = "building" => export_calls = 0 /\ epc = "idle"
    /\ spc = "crashed" => show_calls = 0

\* C17: every script run is one linear pipeline, all models built first,
\* then export_models called exactly once, then show_models called exactly
\* once, no export or display before every model is built, and the run comes
\* to an end.
C17_LinearPipeline == []PipelineOrder /\ <>ScriptEnded

\* a script of two models has built, exported and shown them
C17_Witness ==
    /\ spc = "done"
    /\ Len(models) = 2
    /\ export_calls = 1
    /\ show_calls = 1
    /\ writes # <<>>

\* the paths C19 names for a run: for each model in turn, "exports/" followed
\* by the name and ".stl", then by the name and ".step", for the enabled formats
RECURSIVE NamedPaths(_, _, _)
NamedPaths(names, stl, step) ==
    IF names = <<>> THEN <<>>
    ELSE (IF stl THEN <<ExportDir \o <<"/">> \o Head(names) \o StlSuffix>> ELSE <<>>)
         \o (IF step THEN <<ExportDir \o <<"/">> \o Head(names) \o StepSuffix>> ELSE <<>>)
         \o NamedPaths(Tail(names), stl, step)

\* a path ends with a suffix
EndsWith(path, suffix) ==
    /\ Len(path) >= Len(suffix)
    /\ SubSeq(path, Len(path) - Len(suffix) + 1, Len(path)) = suffix

\* what C19 says of a call of export_models with a format enabled
ExportContract ==
    /\ (stl_export \/ step_export) =>
          /\ epc \in {"loop", "returned", "raised"} => ExportDir \in dirs
          /\ writes # <<>> => ExportDir \in dirs
          /\ makedirs_calls =
                (IF epc \in {"loop", "returned", "raised"} /\ ~had_dir THEN 1 ELSE 0)
          /\ epc = "returned" => writes = NamedPaths(models, stl_export, step_export)
          /\ epc = "loop" => writes = NamedPaths(SubSeq(models, 1, ei - 1), stl_export, step_export)
          /\ epc # "raised"
    /\ \A i \in DOMAIN writes : \A j \in DOMAIN writes : i # j => writes[i] # writes[j]
    /\ (stl_export /\ ~step_export) =>
          \A i \in DOMAIN writes : EndsWith(writes[i], StlSuffix)

\* C19: export_models writes, for each enabled format, exactly one file per
\* named model, named <name>.stl / <name>.step inside the directory
\* "exports"; the directory is made only if it does not exist and exists
\* before the first file is written; distinct names give distinct paths; and
\* with the default flags only STL files are written.
C19_OneFilePerModel == ExportContract

\* no name of the script holds a path separator
PlainNames == \A i \in DOMAIN to_build : Slashes(to_build[i]) = {}

\* C19 for names that hold no path separator
C19_PlainNamesContract == PlainNames => ExportContract

\* two models with plain names exported to both formats into a directory
\* that export_models had to make
C19_Witness ==
    /\ epc = "returned"
    /\ PlainNames
    /\ stl_export /\ step_export
    /\ ~had_dir
    /\ Len(models) = 2
    /\ Len(writes) = 4

\* C20: with stl_export and step_export both false export_models has no
\* effect, whatever the models: it makes no directory, writes no file, and
\* returns.
C20_NoFlagsNoEffect ==
    (~stl_export /\ ~step_export) =>
        /\ dirs = (IF had_dir THEN {ExportDir} ELSE {})
        /\ makedirs_calls = 0
        /\ writes = <<>>
        /\ epc \in {"idle", "entry", "returned"}
        /\ epc = "entry" => ENABLED ExportReturnEarly /\ ~ENABLED ExportMakeDir
        /\ serror # "FileNotFoundError"

\* export_models has returned from a call with both flags false and two
\* models, with no directory "exports"
C20_Witness ==
    /\ ~stl_export /\ ~step_export
    /\ epc = "returned"
    /\ Len(models) = 2
    /\ ~had_dir
    /\ ExportDir \notin dirs

-----------------------------------------------------------------------------
(* Symmetry of the lattice of _hex_centers *)

\* the pair <<x4, ys>> is among the centres generated
Generated(x4, ys) == \E j \in DOMAIN out : out[j] = <<x4, ys>>

\* C22: the lattice of _hex_centers is centred on the origin and symmetric:
\* for positive width, height and cell_size, whenever (x, y) is a generated
\* centre, (-x, y) and (x, -y) are generated centres too.
C22_LatticeSymmetric ==
    HexDonePositive =>
        \A i \in DOMAIN out :
            /\ Generated(-out[i][1], out[i][2])
            /\ Generated(out[i][1], -out[i][2])

\* C22, what does hold: the columns stand symmetrically about x = 0; the
\* centres of an even column are symmetric about y = 0, those of an odd
\* column about y = hex_height / 2, so that the mirror image of the top
\* centre of an odd column is missing; and (-x, y) is generated with (x, y)
\* exactly when the number of columns is odd.
C22_ColumnsSymmetric ==
    HexDonePositive =>
        \A i \in DOMAIN out :
            LET cl == (i - 1) \div n_rows
            IN  /\ \E j \in DOMAIN out : out[j][1] = -out[i][1]
                /\ cl % 2 = 0 => Generated(out[i][1], -out[i][2])
                /\ cl % 2 = 1 => Generated(out[i][1], 2 * cell_size - out[i][2])
                /\ (cl % 2 = 1 /\ (i - 1) % n_rows = n_rows - 1) =>
                      ~Generated(out[i][1], -out[i][2])
                /\ n_cols % 2 = 1 => Generated(-out[i][1], out[i][2])
                /\ n_cols % 2 = 0 => ~Generated(-out[i][1], out[i][2])

\* a finished lattice of an even number of columns, four at least
C22_Witness ==
    /\ HexDonePositive
    /\ n_cols % 2 = 0
    /\ n_cols >= 4
    /\ n_rows >= 3

-----------------------------------------------------------------------------
(* Ties between the extents of the bounding box *)

\* the axes that stand before an axis in the order X, Y, Z
AxesBefore(a) ==
    CASE a = "X" -> {}
      [] a = "Y" -> {"X"}
      [] a = "Z" -> {"X", "Y"}

\* C27: without override, when two or three extents of the bounding box tie
\* for the minimum, _resolve_orientation chooses the first minimal axis in
\* the order X, Y, Z: the axis chosen has a minimal extent and every axis
\* before it has a strictly larger one; a cube resolves to X with plane YZ,
\* and equal Y and Z extents smaller than the X extent resolve to Y.
C27_FirstMinimalAxis ==
    (ocalls >= 1 /\ normal_axis.is_none) =>
        /\ error = ""
        /\ \A b \in Axes : Extent(orientation.normal_axis) <= Extent(b)
        /\ \A b \in AxesBefore(orientation.normal_axis) :
              Extent(b) > Extent(orientation.normal_axis)
        /\ (Extent("X") = Extent("Y") /\ Extent("Y") = Extent("Z")) =>
              orientation.normal_axis = "X" /\ orientation.plane = "YZ"
        /\ (Extent("Y") = Extent("Z") /\ Extent("Y") < Extent("X")) =>
              orientation.normal_axis = "Y" /\ orientation.plane = "XZ"

\* a call on a solid whose Y and Z extents tie below its X extent has chosen Y
C27_Witness ==
    /\ ocalls >= 1
    /\ normal_axis.is_none
    /\ Extent("Y") = Extent("Z")
    /\ Extent("Y") < Extent("X")
    /\ orientation.normal_axis = "Y"

\* C28: when building the models fails (a kernel error, an invalid-axis
\* error or a failed assertion) the run ends without side effects on the
\* file system: export_models is never reached, the directory "exports" is
\* not made by that run and no model file is written.
C28_BuildFailureNoFiles ==
    serror \in BuildErrors =>
        /\ spc = "crashed"
        /\ ~ENABLED NextScript
        /\ export_calls = 0
        /\ epc = "idle"
        /\ makedirs_calls = 0
        /\ dirs = (IF had_dir THEN {ExportDir} ELSE {})
        /\ writes = <<>>
        /\ show_calls = 0

\* the second model of a script failed to build, an export format being
\* enabled and the directory missing
C28_Witness ==
    /\ serror = "AssertionError"
    /\ Len(models) = 1
    /\ Len(to_build) = 2
    /\ stl_export
    /\ ~had_dir
    /\ dirs = {}

-----------------------------------------------------------------------------
(* The module honeycomb keeps no state *)

\* what a call gives in a module just loaded
FreshOutcome(fn, args) ==
    CASE fn = "_hex_centers" -> HexCenters(args[1], args[2], args[3])
      [] fn = "_honeycomb_grid" ->
            HoneycombGrid(args[1], args[2], args[3], args[4], args[5], args[6]).solid
      [] fn = "_resolve_orientation" ->
            [error |-> ResolveError(args[1], args[2]),
             dict |-> IF ResolveError(args[1], args[2]) = ""
                      THEN ResolveOrientation(args[1], args[2])
                      ELSE [plane |-> ""]]
      [] fn = "apply_honeycomb" ->
            ApplyWith(AxisToPlane, PlaneAxes, args[1], args[2], args[3], args[4], args[5])

\* C21: the module honeycomb keeps no mutable shared state. In any sequence
\* of calls of _hex_centers, _honeycomb_grid, _resolve_orientation and
\* apply_honeycomb the tables _AXIS_TO_PLANE and _PLANE_AXES stay as loaded,
\* the arguments stay as passed, and every call gives what it would give as
\* the first call: two calls with the same arguments give the same outcome
\* whatever was called in between.
C21_NoSharedState ==
    /\ axis_to_plane = AxisToPlane
    /\ plane_axes = PlaneAxes
    /\ \A i \in DOMAIN hist :
          /\ hist[i].args_after = hist[i].args
          /\ hist[i].outcome = FreshOutcome(hist[i].fn, hist[i].args)
    /\ \A i \in DOMAIN hist : \A j \in DOMAIN hist :
          (hist[i].fn = hist[j].fn /\ hist[i].args = hist[j].args) =>
              hist[i].outcome = hist[j].outcome

\* _resolve_orientation has been called on the cube, then apply_honeycomb on
\* the same cube, and both succeeded
C21_Witness ==
    /\ Len(hist) = 2
    /\ hist[1].fn = "_resolve_orientation"
    /\ hist[2].fn = "apply_honeycomb"
    /\ hist[1].args[1] = CubeWall
    /\ hist[2].args[1] = CubeWall
    /\ hist[1].outcome.error = ""
    /\ hist[2].outcome.solid.op = "union"

-----------------------------------------------------------------------------
(* Properties of assembly_stand and combine_parts *)

\* the step count assembly_stand accepts
ValidStepCount ==
    /\ stand_args.num_steps > 0
    /\ stand_args.first_step_height > 0 => stand_args.num_steps > 1

\* C23: assembly_stand rejects an invalid step count before it builds any
\* geometry: with num_steps <= 0 it fails with an AssertionError at once;
\* with the first step enabled (first_step_height > 0) it fails with an
\* AssertionError unless num_steps > 1; with first_step_height <= 0,
\* num_steps = 1 is accepted. No step is generated and honeycomb is not
\* called before a failure.
C23_StepCountAsserted ==
    /\ stand_error # "" =>
          /\ stand_error = "AssertionError"
          /\ stand.pc = "raised"
          /\ ~ValidStepCount
          /\ stand_steps = <<>>
          /\ stand_hcalls = <<>>
    /\ stand_args.num_steps <= 0 =>
          /\ stand.pc \in {"call", "raised"}
          /\ stand.pc = "call" => ENABLED StandRejectSteps /\ ~ENABLED StandStart
    /\ (stand_args.num_steps = 1 /\ stand_args.first_step_height > 0) =>
          /\ stand.pc \in {"call", "first", "raised"}
          /\ stand.pc = "first" =>
                ENABLED StandRejectFirst /\ ~ENABLED StandFirstStep /\ ~ENABLED StandSkipFirst
    /\ ValidStepCount =>
          /\ stand.pc # "raised"
          /\ stand.pc # "returned" => ENABLED NextStand
    /\ (stand_args.num_steps = 1 /\ stand_args.first_step_height <= 0
          /\ stand.pc = "returned") => Len(stand_steps) = 1

\* one step asked for together with the special first step: rejected
C23_Witness ==
    /\ stand_args.num_steps = 1
    /\ stand_args.first_step_height > 0
    /\ stand.pc = "raised"
    /\ stand_error = "AssertionError"

\* C24: honeycomb infill in the stand is gated by the wall-size guard:
\* combine_parts calls honeycomb.apply_honeycomb on parts of a step only
\* when its apply_honeycomb argument is true, assembly_stand passes true only
\* when the step's height is strictly greater than
\* 2 * shell_thickness + cell_size, and for a step that fails the guard no
\* part is passed to honeycomb.apply_honeycomb.
C24_HoneycombGated ==
    /\ \A k \in DOMAIN stand_steps :
          stand_steps[k].apply_honeycomb =>
              stand_steps[k].step_height >
                  2 * stand_args.shell_thickness + stand_args.cell_size
    /\ \A c \in DOMAIN stand_hcalls :
          stand_hcalls[c].step \in DOMAIN stand_steps =>
              stand_steps[stand_hcalls[c].step].apply_honeycomb

\* the parts of step k passed to honeycomb.apply_honeycomb, in order
PartsPassed(k) ==
    LET Pick(c) == IF stand_hcalls[c].step = k THEN <<stand_hcalls[c].part>> ELSE <<>>
        F[c \in 0..Len(stand_hcalls)] == IF c = 0 THEN <<>> ELSE F[c - 1] \o Pick(c)
    IN  F[Len(stand_hcalls)]

\* C24, what does hold: the front and the support of a step are passed to
\* honeycomb.apply_honeycomb exactly when the step's height is strictly
\* greater than 2 * shell_thickness + cell_size, and the connector of every
\* step is passed whatever the guard says.
C24_FrontSupportGated ==
    \A k \in DOMAIN stand_steps :
        /\ stand_steps[k].apply_honeycomb <=>
              stand_steps[k].step_height >
                  2 * stand_args.shell_thickness + stand_args.cell_size
        /\ PartsPassed(k) =
              IF stand_steps[k].apply_honeycomb
              THEN <<"front", "support", "connector">>
              ELSE <<"connector">>

\* a stand of a step that passes the guard and of a first step that fails it
C24_Witness ==
    /\ stand.pc = "returned"
    /\ Len(stand_steps) >= 2
    /\ ~stand_steps[1].apply_honeycomb
    /\ stand_steps[2].apply_honeycomb
    /\ PartsPassed(1) = <<"connector">>

\* C29: every step's support reaches the same floor level: after the
\* translation of each step the bottom Z of the support is the same for
\* every regular step and for the special first step when enabled, while
\* from one regular step to the next the Z offset rises by exactly
\* step_height and the Y offset falls by exactly step_depth.
C29_SupportsShareFloor ==
    /\ \A j \in DOMAIN stand_steps : \A k \in DOMAIN stand_steps :
          stand_steps[j].support_bottom2 = stand_steps[k].support_bottom2
    /\ \A k \in DOMAIN stand_steps :
          (k + 1 \in DOMAIN stand_steps /\ stand_steps[k].kind = "regular") =>
              /\ stand_steps[k + 1].kind = "regular"
              /\ stand_steps[k + 1].z_offset2 - stand_steps[k].z_offset2
                    = 2 * stand_args.step_height
              /\ stand_steps[k + 1].y_offset2 - stand_steps[k].y_offset2
                    = -(2 * stand_args.step_depth)

\* a stand of a special first step and two regular steps
C29_Witness ==
    /\ stand.pc = "returned"
    /\ Len(stand_steps) = 3
    /\ stand_steps[1].kind = "first"
    /\ stand_steps[3].kind = "regular"
    /\ stand_steps[1].step_height # stand_steps[2].step_height

-----------------------------------------------------------------------------
(* Properties of tampering-station.py *)

\* the derived dimensions have been computed
StationDerived == station.pc \notin {"idle", "config"}

\* C26: with the shipped configuration constants the derived LENGTH_X,
\* WIDTH_Y and HEIGHT_Z satisfy the four sanity checks: the upper row
\* (210) fits strictly within LENGTH_X (214), the lower row (208) fits
\* within LENGTH_X, the left column (140) fits within WIDTH_Y (144), and
\* handle depth plus screw depth plus internal wall (65) is strictly less
\* than HEIGHT_Z (80); so the script never ends at its sanity checks.
C26_ShippedConfigPasses ==
    station_cfg = ShippedConfig =>
        /\ station_error = ""
        /\ station.pc # "raised"
        /\ station.pc # "checked" => ENABLED NextStation
        /\ StationDerived =>
              /\ 4 * MARGIN + UPPER_LEFT_DIAMETER + UPPER_MIDDLE_LENGTH_X
                    + UPPER_RIGHT_DIAMETER < station.LENGTH_X
              /\ 5 * MARGIN + station.LOWER_LEFT_SLOTS_WIDTH_X + LOWER_LEFT_HOLE_DIAMETER
                    + PORTA_HOLDER_DIAMETER + LOWER_RIGHT_DIAMETER <= station.LENGTH_X
              /\ 3 * MARGIN + UPPER_LEFT_DIAMETER + LOWER_LEFT_SLOT_LENGTH_Y
                    <= station.WIDTH_Y
              /\ PORTA_HANDLE_DEPTH_Z + PORTA_HANDLE_SCREW_DEPTH_Z + INTERNAL_WALL
                    < station.HEIGHT_Z
              /\ station.LENGTH_X = 214
              /\ station.WIDTH_Y = 144
              /\ station.HEIGHT_Z = 80

\* the shipped configuration has passed the four checks
C26_Witness ==
    /\ station_cfg = ShippedConfig
    /\ station.pc = "checked"
    /\ station_error = ""

-----------------------------------------------------------------------------
(* Properties of the vent layout *)

\* C30: in add_vertical_wall_vents and add_diagonal_wall_vents, for positive
\* area_length and spacing, the number of slots is
\* n = max(1, floor(area_length / spacing)) >= 1; the slot centres are
\* evenly spaced by area_length / n, symmetric about the centre of the vent
\* area and strictly inside [-area_length / 2, area_length / 2]; and the
\* actual spacing is not smaller than the requested one when
\* area_length >= spacing.
C30_VentLayout ==
    vent.pc = "returned" =>
        LET L == vent_args.area_length
            sp == vent_args.spacing
            n == vent.n
        IN  /\ n >= 1
            /\ L >= sp => (n * sp <= L /\ L < (n + 1) * sp)
            /\ L < sp => n = 1
            /\ Len(vent_ys) = n
            /\ \A k \in 1..(n - 1) : vent_ys[k + 1] - vent_ys[k] = 2 * L
            /\ \A k \in 1..n : vent_ys[k] + vent_ys[n + 1 - k] = 0
            /\ \A k \in 1..n : -(L * n) < vent_ys[k] /\ vent_ys[k] < L * n
            /\ L >= sp => L >= sp * n

\* the diagonal vents over an area that spacing does not divide: three slots
\* at least, spaced wider than asked
C30_Witness ==
    /\ vent.pc = "returned"
    /\ vent_args.fn = "add_diagonal_wall_vents"
    /\ vent.n >= 3
    /\ vent_args.area_length > vent.n * vent_args.spacing
    /\ Len(vent_ys) = vent.n

-----------------------------------------------------------------------------
(* Properties of the enclosure assembly *)

\* C25: add_aligments_assemble makes the lid fit over the base: whenever the
\* bottom plate does not overlap the top plate and the rear wall does not
\* overlap the front wall, the returned base and the returned lid share no
\* volume.
C25_LidFitsBase ==
    (/\ encl.pc = "returned"
     /\ encl_args.bottom \cap encl_args.top = {}
     /\ encl_args.rear \cap encl_args.front = {})
        => encl.base \cap encl.lid = {}

\* the preconditions hold, the bottom plate runs into the front wall and the
\* rear wall into a side wall and the top plate, and both parts come out
\* non-empty
C25_Witness ==
    /\ encl.pc = "returned"
    /\ encl_args.bottom \cap encl_args.top = {}
    /\ encl_args.rear \cap encl_args.front = {}
    /\ encl_args.bottom \cap encl_args.front # {}
    /\ encl_args.rear \cap encl_args.left # {}
    /\ encl_args.rear \cap encl_args.top # {}
    /\ encl.base # {}
    /\ encl.lid # {}

=============================================================================
